---------------------------- MODULE Spec2Model ----------------------------
(***************************************************************************)
(* Model of the core-runtime kernels of TFRT (core_runtime/kernels.cc):    *)
(* the sequenced op-execution kernel ExecuteOpSeq and the conditional      *)
(* kernel CoreRtConditional (corert.cond).                                 *)
(*                                                                         *)
(* An AsyncValue is modelled by its state, a triple <<kind, a, b>>:        *)
(*   <<"none","",0>>     the value does not exist yet (not allocated)      *)
(*   <<"pending","",0>>  allocated, not yet available                      *)
(*   <<"concrete","",0>> available with a value                            *)
(*   <<"error",a,b>>     available as the error with payload (a,b)         *)
(* AsyncValues are single-assignment: pending -> concrete | error.         *)
(*                                                                         *)
(* The kernels run on a multi-threaded host: every kernel body and every   *)
(* continuation is one atomic action, and other threads may resolve        *)
(* AsyncValues between them.                                               *)
(***************************************************************************)
EXTENDS Integers, Sequences, FiniteSets, TLC

\* ---------------------------------------------------------------- bounds
\* Number of tensor arguments of an ExecuteOpSeq call (args.size()).
NumArgs == 2
\* Number of declared results of a kernel call (results.size()).
NumResults == 2
NumCells == 2
NumShapes == 2
NumBuffers == 3
MaxRank == 8
MaxRendered == 2

\* Two ExecuteOpSeq calls: call 1 ("A") and call 2 ("B"); B's in_op_chain is
\* A's out_op_chain.
Calls == {1, 2}

VARIABLES
  runtime,    \* CoreRuntime::GetFromHostContext(host) # nullptr
  opHandler,  \* [Calls -> state] the op_handler argument of each call
  argv,       \* [Calls -> [1..NumArgs -> state]] the tensor arguments
  chain0,     \* state of the in_op_chain of call 1
  makeOpOk,   \* [Calls -> BOOLEAN] whether core_rt->MakeOp(op_name, handler) succeeds
  k,          \* [Calls -> record] the state of each ExecuteOpSeq invocation
  cond,       \* the state of the CoreRtConditional invocation and its condition
  registry,   \* names of the op handler chains registered in the CoreRuntime
  ek,         \* the last invocation of one of the other runtime-bound kernels
  cells,      \* the AsyncValues a TensorHandle can refer to, by reference
  th,         \* the TensorHandle produced by the last construction
  seen,       \* the renderings of TensorHandles written so far
  shapes,     \* the TensorShape objects: their storage and whether they are alive
  heap,       \* the dimension buffers allocated with new size_t[rank]
  last,       \* the last operation on a TensorShape and what it returned
  abuf,       \* the attribute buffer: its aggregate header and the type of each header
  tv,         \* the last operation on a typed view of the buffer and its outcome
  kr          \* the last invocation of a tensor kernel and what it returned

vars == <<runtime, opHandler, argv, chain0, makeOpOk, k, cond, registry, ek, cells, th,
          seen, shapes, heap, last, abuf, tv, kr>>

seqVars == <<runtime, opHandler, argv, chain0, makeOpOk, k>>

\* The variables of the other kernels and of TensorHandle.
\* The variables outside the kernels and the TensorHandle constructors.
attrVars == <<abuf, tv>>

restVars == <<seen, shapes, heap, last, attrVars, kr>>

extVars == <<registry, ek, cells, th, restVars>>

\* ------------------------------------------------------ AsyncValue states
None == <<"none", "", 0>>
Pending == <<"pending", "", 0>>
Concrete == <<"concrete", "", 0>>

\* AsyncValue::IsError
IsError(v) == v[1] = "error"

\* AsyncValue::IsConcrete
IsConcrete(v) == v[1] = "concrete"

\* AsyncValue::IsAvailable: concrete or error
IsAvailable(v) == IsConcrete(v) \/ IsError(v)

\* Error payloads.
HandlerError(c) == <<"error", "op_handler", c>>
ArgError(c, i) == <<"error", "arg", 10 * c + i>>
ChainError == <<"error", "in_op_chain", 0>>
\* The error of a failed op lookup: StrCat(expected_op.takeError()).
MakeOpError(c) == <<"error", "MakeOp", c>>
\* The error an op dispatched by call c delivers through its completion chain.
OpError(c) == <<"error", "op", c>>
\* handler.ReportError("no CoreRuntime available")
NoRuntimeError == <<"error", "no CoreRuntime available", 0>>

ArgIdx == 1..NumArgs
ResIdx == 1..NumResults

\* -------------------------------------------------- ExecuteOpSeq: state
\* State of one invocation before the kernel is called.
IdleCall ==
  [ pc |-> "idle",             \* idle | waiting | awaitOp | done
    asyncArgs |-> {},          \* async_args: 0 is op_handler, i >= 1 is args[i]
    results |-> [i \in ResIdx |-> None],
    outChain |-> None,         \* the AsyncValue allocated by out_op_chain.Allocate()
    outIsOp |-> FALSE,         \* out_op_chain.Set(op_chain): out chain IS the op's chain
    opChain |-> None,          \* op_chain after ExecuteOpImpl: the op's completion chain
    makeOps |-> 0,             \* number of core_rt->MakeOp calls
    dispatches |-> 0,          \* number of ExecuteOpImpl calls
    chainAtDispatch |-> None,  \* history: state of in_op_chain when ExecuteOpImpl ran
    chainAtStart |-> None,     \* history: state of in_op_chain when the kernel decided
                               \* between dispatch and error propagation
    errAtCall |-> {},          \* history: arguments that were errors at call time
    registered |-> 0,          \* number of host->RunWhenReady registrations
    contRuns |-> 0,            \* number of runs of the registered continuation
    writes |-> [i \in ResIdx |-> 0],  \* history: assignments to each result
    chainWrites |-> 0,         \* history: assignments to out_op_chain
    path |-> "none" ]          \* history: fast | slow

\* The out_op_chain result of call c as its consumers see it.
OutChain(c) == IF k[c].outIsOp THEN k[c].opChain ELSE k[c].outChain

\* The in_op_chain argument of call c.
InChain(c) == IF c = 1 THEN chain0 ELSE OutChain(1)

\* State of the AsyncValue behind entry a of async_args.
AsyncArgState(c, a) == IF a = 0 THEN opHandler[c] ELSE argv[c][a]

\* KernelErrorHandler::ReportError: every result of the kernel that is not
\* available yet (out_op_chain and results) becomes the reported error.
ReportError(kc, err) ==
  [kc EXCEPT !.results = [i \in ResIdx |-> err],
             !.outChain = err,
             !.writes = [i \in ResIdx |-> @[i] + 1],
             !.chainWrites = @ + 1,
             !.pc = "done"]

\* Mutant: the lambda forwards the error to out_op_chain only.
PropagateErrorToChainOnly(kc, err) ==
  [kc EXCEPT !.outChain = err, !.chainWrites = @ + 1, !.pc = "done"]

\* The propgate_error lambda of the continuation.
PropagateError(kc, err) ==
  [kc EXCEPT !.outChain = err,
             !.results = [i \in ResIdx |-> err],
             !.writes = [i \in ResIdx |-> @[i] + 1],
             !.chainWrites = @ + 1,
             !.pc = "done"]

\* ExecuteOpImpl(op, args, &op_chain, results, ...): the op handler runs the
\* op; it fills every result and replaces op_chain by its completion chain.
ExecuteOpImpl(c, kc, opRes, opCh) ==
  [kc EXCEPT !.dispatches = @ + 1,
             !.results = [i \in ResIdx |-> opRes],
             !.writes = [i \in ResIdx |-> @[i] + 1],
             !.opChain = opCh,
             !.chainAtDispatch = InChain(c)]

\* Mutant: the waiter forgets the error case and always emplaces the chain.
SetOutChainAlwaysConcrete(kc) ==
  [kc EXCEPT !.outChain = Concrete, !.chainWrites = @ + 1, !.pc = "done"]

\* Mutant: the waiter sets the error and then emplaces the chain as well.
SetOutChainTwice(kc) ==
  [kc EXCEPT !.outChain = Concrete,
             !.chainWrites = IF IsError(kc.opChain) THEN @ + 2 ELSE @ + 1,
             !.pc = "done"]

\* The waiter registered on the op's completion chain by the continuation.
SetOutChainFromOpChain(kc) ==
  [kc EXCEPT !.outChain = IF IsError(kc.opChain) THEN kc.opChain ELSE Concrete,
             !.chainWrites = @ + 1,
             !.pc = "done"]

\* Mutant: the last argument in argument order that is an error.
LastErrorArg(c) ==
  CHOOSE i \in ArgIdx : IsError(argv[c][i]) /\ \A j \in ArgIdx : j > i => ~IsError(argv[c][j])

\* The first argument in argument order that is an error.
FirstErrorArg(c) ==
  CHOOSE i \in ArgIdx : IsError(argv[c][i]) /\ \A j \in ArgIdx : j < i => ~IsError(argv[c][j])

\* Mutant: a failed op lookup is not propagated; the lambda goes on to the
\* arguments and the dispatch.
ContinuationBodyIgnoresLookup(c, kc0, opRes, opCh) ==
  LET kc == [kc0 EXCEPT !.chainAtStart = InChain(c), !.contRuns = @ + 1] IN
  IF IsError(opHandler[c]) THEN PropagateError(kc, opHandler[c])
  ELSE IF IsError(InChain(c)) THEN PropagateError(kc, InChain(c))
  ELSE LET kc1 == [kc EXCEPT !.makeOps = @ + 1] IN
       IF \E i \in ArgIdx : IsError(argv[c][i])
       THEN PropagateError(kc1, argv[c][FirstErrorArg(c)])
       ELSE [ExecuteOpImpl(c, kc1, opRes, opCh) EXCEPT !.pc = "awaitOp"]

\* The body of the lambda passed to host->RunWhenReady.
ContinuationBody(c, kc0, opRes, opCh) ==
  LET kc == [kc0 EXCEPT !.chainAtStart = InChain(c), !.contRuns = @ + 1] IN
  IF IsError(opHandler[c]) THEN PropagateError(kc, opHandler[c])
  ELSE IF IsError(InChain(c)) THEN PropagateError(kc, InChain(c))
  ELSE LET kc1 == [kc EXCEPT !.makeOps = @ + 1] IN
       IF ~makeOpOk[c] THEN PropagateError(kc1, MakeOpError(c))
       ELSE IF \E i \in ArgIdx : IsError(argv[c][i])
            THEN PropagateError(kc1, argv[c][FirstErrorArg(c)])
            ELSE [ExecuteOpImpl(c, kc1, opRes, opCh) EXCEPT !.pc = "awaitOp"]

\* Mutant: async_args collects the arguments only, not op_handler.
AsyncArgsWithoutHandler(c) ==
  {a \in ArgIdx : ~IsConcrete(AsyncArgState(c, a))}

\* async_args: op_handler (entry 0) and every argument that is not concrete
\* when the kernel is called.
AsyncArgs(c) ==
  {a \in {0} \cup ArgIdx : ~IsConcrete(AsyncArgState(c, a))}

\* The body of ExecuteOpSeq up to its return.
ExecuteOpSeqBody(c, kc0, opRes, opCh) ==
  IF ~runtime THEN ReportError(kc0, NoRuntimeError)
  ELSE
    LET async == AsyncArgs(c)
        kc == [kc0 EXCEPT !.results = [i \in ResIdx |-> Pending],
                          !.errAtCall = {i \in ArgIdx : IsError(argv[c][i])}]
    IN
    IF async = {}
    THEN LET kc1 == [kc EXCEPT !.makeOps = @ + 1, !.path = "fast",
                               !.chainAtStart = InChain(c)] IN
         IF ~makeOpOk[c] THEN ReportError(kc1, MakeOpError(c))
         ELSE [ExecuteOpImpl(c, kc1, opRes, opCh) EXCEPT !.outIsOp = TRUE,
                                                         !.chainWrites = @ + 1,
                                                         !.pc = "done"]
    ELSE [kc EXCEPT !.asyncArgs = async, !.outChain = Pending,
                    !.registered = @ + 1,
                    !.path = "slow", !.pc = "waiting"]

\* What an op can deliver at dispatch: its results and its completion chain.
OpResults(c) == {Concrete, OpError(c)}
OpChains(c) == {Pending, Concrete, OpError(c)}

\* ------------------------------------------------ ExecuteOpSeq: actions
\* The executor invokes the kernel of call c (calls are issued in program order).
Call(c) ==
  /\ k[c].pc = "idle"
  /\ c = 2 => k[1].pc # "idle"
  /\ \E opRes \in OpResults(c), opCh \in OpChains(c) :
       k' = [k EXCEPT ![c] = ExecuteOpSeqBody(c, k[c], opRes, opCh)]
  /\ UNCHANGED <<runtime, opHandler, argv, chain0, makeOpOk, cond, extVars>>

\* host->RunWhenReady(async_args, ...): the continuation runs once every
\* AsyncValue of async_args is available.
RunWhenReadyEnabled(c) ==
  \A a \in k[c].asyncArgs : IsAvailable(AsyncArgState(c, a))

Continuation(c) ==
  /\ k[c].pc = "waiting"
  /\ RunWhenReadyEnabled(c)
  /\ \E opRes \in OpResults(c), opCh \in OpChains(c) :
       k' = [k EXCEPT ![c] = ContinuationBody(c, k[c], opRes, opCh)]
  /\ UNCHANGED <<runtime, opHandler, argv, chain0, makeOpOk, cond, extVars>>

\* op_chain_av->AndThen(...): runs once the op's completion chain is available.
OpChainReady(c) ==
  /\ k[c].pc = "awaitOp"
  /\ IsAvailable(k[c].opChain)
  /\ k' = [k EXCEPT ![c] = SetOutChainFromOpChain(k[c])]
  /\ UNCHANGED <<runtime, opHandler, argv, chain0, makeOpOk, cond, extVars>>

\* Environment: the producer of an op_handler argument resolves it.
ResolveHandler(c) ==
  /\ opHandler[c] = Pending
  /\ \E v \in {Concrete, HandlerError(c)} : opHandler' = [opHandler EXCEPT ![c] = v]
  /\ UNCHANGED <<runtime, argv, chain0, makeOpOk, k, cond, extVars>>

\* Environment: the producer of a tensor argument resolves it.
ResolveArg(c, i) ==
  /\ argv[c][i] = Pending
  /\ \E v \in {Concrete, ArgError(c, i)} : argv' = [argv EXCEPT ![c][i] = v]
  /\ UNCHANGED <<runtime, opHandler, chain0, makeOpOk, k, cond, extVars>>

\* Environment: the producer of call 1's in_op_chain resolves it.
ResolveChain ==
  /\ chain0 = Pending
  /\ \E v \in {Concrete, ChainError} : chain0' = v
  /\ UNCHANGED <<runtime, opHandler, argv, makeOpOk, k, cond, extVars>>

\* Environment: a dispatched op completes and resolves its completion chain.
OpComplete(c) ==
  /\ k[c].opChain = Pending
  /\ \E v \in {Concrete, OpError(c)} : k' = [k EXCEPT ![c].opChain = v]
  /\ UNCHANGED <<runtime, opHandler, argv, chain0, makeOpOk, cond, extVars>>

\* ------------------------------------------- CoreRtConditional: state
\* DType kinds of dense tensors: DType::BOOL, the integer kinds (the kinds
\* DTYPE_INT expands for), the float kinds, and DType::String.
BoolKinds == {"bool"}
IntKinds == {"ui8", "ui16", "ui32", "ui64", "i1", "i8", "i16", "i32", "i64"}
FloatKinds == {"f32", "f64"}
OtherKinds == {"string"}
Kinds == BoolKinds \cup IntKinds \cup FloatKinds \cup OtherKinds

\* The kinds GetDHTPredicateValue has a case for: BOOL and every DTYPE_INT kind.
PredicateKinds == BoolKinds \cup IntKinds

\* Values of the single element of a dense condition tensor, by kind.
ElemValues(kind) ==
  IF kind \in BoolKinds THEN {0, 1}
  ELSE IF kind \in {"ui8", "ui16", "ui32", "ui64"} THEN {0, 5}
  ELSE {-1, 0, 5}

\* Contents of a string condition tensor (sht->strings()).
StringContents == {<<>>, <<"">>, <<"x">>, <<"", "x">>, <<"x", "">>}

\* What the condition's host tensor holds once the conversion has resolved.
Contents ==
  {[format |-> "dense", kind |-> kd, value |-> v, strings |-> <<>>] :
      kd \in Kinds, v \in {-1, 0, 1, 5}}
  \cup {[format |-> "string", kind |-> "string", value |-> 0, strings |-> s] :
          s \in StringContents}
  \cup {[format |-> "other", kind |-> "i32", value |-> 0, strings |-> <<>>]}

ValidContents ==
  {ct \in Contents : ct.format = "dense" => ct.value \in ElemValues(ct.kind)}

CondHandleError == <<"error", "condition handle", 0>>
CondTensorError == <<"error", "condition tensor", 0>>
CondConvertError == <<"error", "ConvertToHostTensor", 0>>

\* State of the kernel before corert.cond is invoked on a condition whose
\* host tensor will hold `content`.
CondIdle(content) ==
  [ stage |-> "idle",       \* idle | waitTH | waitTensor | waitHT | done | crashed
    th |-> Pending,         \* args[0], the condition TensorHandle AsyncValue
    tensor |-> None,        \* GetAsyncTensor() of the condition handle
    ht |-> None,            \* the result of tensor.ConvertToHostTensor
    content |-> content,
    args |-> [i \in ArgIdx |-> Pending], \* args[1..]: the non-condition arguments
    fnArgs |-> <<>>,        \* the arguments handed to fn->Execute
    fwd |-> [i \in ResIdx |-> 0],       \* ForwardTo calls on result_refs[i]
    resVal |-> [i \in ResIdx |-> None], \* what result_refs[i] was forwarded to
    execTrue |-> 0,         \* number of true_fn->Execute calls
    execFalse |-> 0,        \* number of false_fn->Execute calls
    readError |-> FALSE,    \* get<T>() / operator* was applied to an errored AsyncValue
    garbage |-> FALSE,      \* the kernel continues on a value read from an error
    unsupported |-> FALSE ] \* llvm_unreachable / assert(false) was reached

\* The handle_error_and_return lambda: forwards the error to every result and
\* returns to the continuation that called it.
HandleErrorAndReturn(cs, av) ==
  IF IsError(av)
  THEN [cs EXCEPT !.fwd = [i \in ResIdx |-> @[i] + 1],
                  !.resVal = [i \in ResIdx |-> av]]
  ELSE cs

\* The process stops: a failed assertion, or a crash on an invalid read.
Crash(cs) == [cs EXCEPT !.stage = "crashed"]

\* Mutant: the integer case tests "> 0" instead of "!= 0".
DHTPredicatePositive(kind, value) ==
  IF kind \in BoolKinds THEN value = 1 ELSE value > 0

\* GetDHTPredicateValue for the kinds it has a case for.
DHTPredicate(kind, value) ==
  IF kind \in BoolKinds THEN value = 1 ELSE value # 0

\* Mutant: the string branch only tests whether the tensor has elements.
StringPredicateNonEmptyTensor(strings) == Len(strings) > 0

\* The string branch of if_impl: "Only empty string is false."
StringPredicate(strings) ==
  IF Len(strings) = 0 \/ strings[1] = "" THEN FALSE ELSE TRUE

\* arg_refs: references to all arguments of corert.cond; argument 0 is the
\* condition, arguments 1..NumArgs are the remaining ones.
ArgRefs == [j \in 1..(NumArgs + 1) |-> j - 1]

\* Mutant: the function is handed all arguments, the condition included.
FnArgsWithCondition == ArgRefs

\* arg_refs.drop_front(): what fn->Execute receives.
FnArgs == Tail(ArgRefs)

\* The tail of if_impl: execute the selected function, forward the results.
IfImplRun(cs, predicate) ==
  [cs EXCEPT !.execTrue = IF predicate THEN @ + 1 ELSE @,
             !.fnArgs = FnArgs,
             !.execFalse = IF predicate THEN @ ELSE @ + 1,
             !.fwd = [i \in ResIdx |-> @[i] + 1],
             !.resVal = [i \in ResIdx |->
                           <<"result", IF predicate THEN "true_fn" ELSE "false_fn", i>>],
             !.stage = "done"]

\* if_impl applied to a host tensor that was read from a valid AsyncValue:
\* the set of outcomes. An unsupported dtype or tensor type fails an
\* assertion where assertions are compiled in, and is undefined otherwise.
IfImpl(cs) ==
  LET ct == cs.content IN
  IF ct.format = "dense"
  THEN IF ct.kind \in PredicateKinds
       THEN {IfImplRun(cs, DHTPredicate(ct.kind, ct.value))}
       ELSE LET u == [cs EXCEPT !.unsupported = TRUE] IN
            {Crash(u)} \cup {IfImplRun(u, p) : p \in BOOLEAN}
  ELSE IF ct.format = "string"
  THEN {IfImplRun(cs, StringPredicate(ct.strings))}
  ELSE LET u == [cs EXCEPT !.unsupported = TRUE] IN
       {Crash(u), IfImplRun(u, FALSE)}

\* States an AsyncValue can be found in.
AnyState(err) == {Pending, Concrete, err}

\* ------------------------------------------ CoreRtConditional: actions
\* corert.cond is invoked: the result placeholders are allocated and the
\* first continuation is registered on the condition handle.
CondCall ==
  /\ cond.stage = "idle"
  /\ cond' = [cond EXCEPT !.stage = "waitTH",
                          !.resVal = [i \in ResIdx |-> Pending]]
  /\ UNCHANGED <<seqVars, extVars>>

\* What each continuation waits for.
HandleReady == IsAvailable(cond.th)

\* Mutant: the second continuation is registered on the handle again.
TensorReadyOnHandle == IsAvailable(cond.th)

TensorReady == IsAvailable(cond.tensor)

\* Mutant: the third continuation also waits for the remaining arguments.
HostTensorAndArgsReady ==
  IsAvailable(cond.ht) /\ \A i \in ArgIdx : IsAvailable(cond.args[i])

HostTensorReady == IsAvailable(cond.ht)

\* The continuation registered on condition_tensorhandle.
OnHandleReady ==
  /\ cond.stage = "waitTH"
  /\ HandleReady
  /\ LET cs == HandleErrorAndReturn(cond, cond.th) IN
     IF IsError(cond.th)
     THEN \* get<TensorHandle>() on an error value: undefined
          LET u == [cs EXCEPT !.readError = TRUE, !.garbage = TRUE] IN
          cond' \in {Crash(u)} \cup
                    {[u EXCEPT !.tensor = t, !.stage = "waitTensor"] :
                        t \in AnyState(CondTensorError)}
     ELSE cond' = [cs EXCEPT !.stage = "waitTensor"]
  /\ UNCHANGED <<seqVars, extVars>>

\* The continuation registered on condition_async_tensor.
OnTensorReady ==
  /\ cond.stage = "waitTensor"
  /\ TensorReady
  /\ LET cs == HandleErrorAndReturn(cond, cond.tensor) IN
     IF IsError(cond.tensor)
     THEN \* get<Tensor>() on an error value: undefined
          LET u == [cs EXCEPT !.readError = TRUE, !.garbage = TRUE] IN
          cond' \in {Crash(u)} \cup
                    {[u EXCEPT !.ht = h, !.stage = "waitHT"] :
                        h \in AnyState(CondConvertError)}
     ELSE IF cs.garbage
     THEN cond' \in {Crash(cs)} \cup
                    {[cs EXCEPT !.ht = h, !.stage = "waitHT"] :
                        h \in AnyState(CondConvertError)}
     ELSE \* tensor.ConvertToHostTensor(host, allowed_formats)
          cond' \in {[cs EXCEPT !.ht = h, !.stage = "waitHT"] :
                        h \in AnyState(CondConvertError)}
  /\ UNCHANGED <<seqVars, extVars>>

\* The continuation registered on condition_host_tensor.
OnHostTensorReady ==
  /\ cond.stage = "waitHT"
  /\ HostTensorReady
  /\ LET cs == HandleErrorAndReturn(cond, cond.ht) IN
     IF IsError(cond.ht)
     THEN \* *condition_host_tensor on an error value: undefined
          LET u == [cs EXCEPT !.readError = TRUE, !.garbage = TRUE] IN
          cond' \in {Crash(u)} \cup {IfImplRun(u, p) : p \in BOOLEAN}
     ELSE IF cs.garbage
     THEN cond' \in {Crash(cs)} \cup {IfImplRun(cs, p) : p \in BOOLEAN}
     ELSE cond' \in IfImpl(cs)
  /\ UNCHANGED <<seqVars, extVars>>

\* Environment: the condition TensorHandle becomes available; a concrete
\* handle carries its async tensor.
CondResolveHandle ==
  /\ cond.th = Pending
  /\ \/ cond' = [cond EXCEPT !.th = CondHandleError]
     \/ \E t \in AnyState(CondTensorError) :
          cond' = [cond EXCEPT !.th = Concrete, !.tensor = t]
  /\ UNCHANGED <<seqVars, extVars>>

\* Environment: the condition's tensor becomes available.
CondResolveTensor ==
  /\ cond.tensor = Pending
  /\ \E t \in {Concrete, CondTensorError} : cond' = [cond EXCEPT !.tensor = t]
  /\ UNCHANGED <<seqVars, extVars>>

\* Environment: the conversion to a host tensor completes.
CondResolveHostTensor ==
  /\ cond.ht = Pending
  /\ \E h \in {Concrete, CondConvertError} : cond' = [cond EXCEPT !.ht = h]
  /\ UNCHANGED <<seqVars, extVars>>

\* Environment: a non-condition argument of corert.cond becomes available.
CondArgError(i) == <<"error", "cond arg", i>>

CondResolveArg(i) ==
  /\ cond.args[i] = Pending
  /\ \E v \in {Concrete, CondArgError(i)} : cond' = [cond EXCEPT !.args[i] = v]
  /\ UNCHANGED <<seqVars, extVars>>

\* ------------------------------------- the other runtime-bound kernels
\* ExecuteOp, ExecuteCoreRuntimeOp, MakeCompositeOp, GetOpHandler,
\* RegisterOpHandlerChain (kernels.cc) and CreateGpuOpHandlerKernel
\* (op_handler_kernels.cc). Each invocation is one action; ek records it:
\*   outcome  "ok": the kernel returned normally
\*            "error": the kernel reported or returned the error ek.error
\*            "assert": an assert() of the kernel failed
\*            "crash": the kernel went on past a compiled-out assert()
\*   log      the runtime calls the kernel made, in order
HandlerNames == {"cpu", "gpu", "chain"}

EntryIdle ==
  [ kernel |-> "none", name |-> "", outcome |-> "none", error |-> None,
    log |-> <<>>, results |-> [i \in ResIdx |-> None] ]

EntryMakeOpError == <<"error", "MakeOp", 0>>
EntryOpError == <<"error", "op", 0>>
MakeCompositeOpError == <<"error", "MakeCompositeOp", 0>>
\* tfrt::MakeStringError("op_handler not found.")
HandlerNotFoundError == <<"error", "op_handler not found.", 0>>

\* A kernel that failed through handler.ReportError or by returning an error.
EntryFailed(kernel, err, log) ==
  [ kernel |-> kernel, name |-> "", outcome |-> "error", error |-> err,
    log |-> log, results |-> [i \in ResIdx |-> err] ]

\* Mutant: ExecuteOp allocates the results before it looks up the op.
ExecuteOpKernelAllocatesFirst(makeOk, opRes) ==
  IF ~runtime THEN EntryFailed("ExecuteOp", NoRuntimeError, <<>>)
  ELSE IF ~makeOk
  THEN EntryFailed("ExecuteOp", EntryMakeOpError, <<"AllocateAt", "MakeOp">>)
  ELSE [ kernel |-> "ExecuteOp", name |-> "", outcome |-> "ok", error |-> None,
         log |-> <<"AllocateAt", "MakeOp", "ExecuteOpImpl">>,
         results |-> [i \in ResIdx |-> opRes] ]

\* ExecuteOp: the runtime lookup, the op lookup, the allocation of the
\* results, the dispatch.
ExecuteOpKernel(makeOk, opRes) ==
  IF ~runtime THEN EntryFailed("ExecuteOp", NoRuntimeError, <<>>)
  ELSE IF ~makeOk
  THEN EntryFailed("ExecuteOp", EntryMakeOpError, <<"MakeOp">>)
  ELSE [ kernel |-> "ExecuteOp", name |-> "", outcome |-> "ok", error |-> None,
         log |-> <<"MakeOp", "AllocateAt", "ExecuteOpImpl">>,
         results |-> [i \in ResIdx |-> opRes] ]

\* ExecuteCoreRuntimeOp: the op is an argument, there is no lookup.
ExecuteCoreRuntimeOpKernel(opRes) ==
  IF ~runtime THEN EntryFailed("ExecuteCoreRuntimeOp", NoRuntimeError, <<>>)
  ELSE [ kernel |-> "ExecuteCoreRuntimeOp", name |-> "", outcome |-> "ok",
         error |-> None, log |-> <<"AllocateAt", "ExecuteOpImpl">>,
         results |-> [i \in ResIdx |-> opRes] ]

\* MakeCompositeOp: returns the runtime's composite op or an error.
MakeCompositeOpKernel(makeOk) ==
  IF ~runtime THEN EntryFailed("MakeCompositeOp", NoRuntimeError, <<>>)
  ELSE IF ~makeOk
  THEN EntryFailed("MakeCompositeOp", MakeCompositeOpError, <<"MakeCompositeOp">>)
  ELSE [ kernel |-> "MakeCompositeOp", name |-> "", outcome |-> "ok", error |-> None,
         log |-> <<"MakeCompositeOp">>, results |-> [i \in ResIdx |-> Concrete] ]

\* What a kernel that only asserts the runtime does without one: assert()
\* fails where it is compiled in, and otherwise the kernel goes on to call
\* through the null runtime.
AssertedRuntimeMissing(kernel, name, call) ==
  { [ kernel |-> kernel, name |-> name, outcome |-> "assert", error |-> None,
      log |-> <<>>, results |-> [i \in ResIdx |-> None] ],
    [ kernel |-> kernel, name |-> name, outcome |-> "crash", error |-> None,
      log |-> <<call>>, results |-> [i \in ResIdx |-> None] ] }

\* Mutant: GetOpHandler reports every name as found.
GetOpHandlerAlwaysFound(name) ==
  { [ kernel |-> "GetOpHandler", name |-> name, outcome |-> "ok", error |-> None,
      log |-> <<"GetOpHandler">>, results |-> [i \in ResIdx |-> Concrete] ] }

\* GetOpHandler: the outcomes of looking up `name`.
GetOpHandlerKernel(name) ==
  IF ~runtime THEN AssertedRuntimeMissing("GetOpHandler", name, "GetOpHandler")
  ELSE IF name \in registry
  THEN { [ kernel |-> "GetOpHandler", name |-> name, outcome |-> "ok", error |-> None,
           log |-> <<"GetOpHandler">>, results |-> [i \in ResIdx |-> Concrete] ] }
  ELSE { [ EntryFailed("GetOpHandler", HandlerNotFoundError, <<"GetOpHandler">>)
             EXCEPT !.name = name ] }

\* RegisterOpHandlerChain: the outcomes of registering `name` (root is not null).
RegisterOpHandlerChainKernel(name) ==
  IF ~runtime
  THEN AssertedRuntimeMissing("RegisterOpHandlerChain", name, "RegisterOpHandlerChain")
  ELSE { [ kernel |-> "RegisterOpHandlerChain", name |-> name, outcome |-> "ok",
           error |-> None, log |-> <<"RegisterOpHandlerChain">>,
           results |-> [i \in ResIdx |-> Concrete] ] }

\* CreateGpuOpHandlerKernel: the outcomes of creating a GPU op handler;
\* createOk is whether CreateGpuOpHandler returns a handler.
CreateGpuOpHandlerOutcomes(createOk) ==
  IF ~runtime
  THEN AssertedRuntimeMissing("CreateGpuOpHandlerKernel", "gpu", "CreateGpuOpHandler")
  ELSE IF createOk
  THEN { [ kernel |-> "CreateGpuOpHandlerKernel", name |-> "gpu", outcome |-> "ok",
           error |-> None, log |-> <<"CreateGpuOpHandler">>,
           results |-> [i \in ResIdx |-> Concrete] ] }
  ELSE { [ kernel |-> "CreateGpuOpHandlerKernel", name |-> "gpu", outcome |-> o,
           error |-> None, log |-> <<"CreateGpuOpHandler">>,
           results |-> [i \in ResIdx |-> None] ] : o \in {"assert", "crash"} }

ExecuteOp ==
  /\ \E makeOk \in BOOLEAN, opRes \in {Concrete, EntryOpError} :
       ek' = ExecuteOpKernel(makeOk, opRes)
  /\ UNCHANGED <<seqVars, cond, registry, cells, th, restVars>>

ExecuteCoreRuntimeOp ==
  /\ \E opRes \in {Concrete, EntryOpError} : ek' = ExecuteCoreRuntimeOpKernel(opRes)
  /\ UNCHANGED <<seqVars, cond, registry, cells, th, restVars>>

MakeCompositeOp ==
  /\ \E makeOk \in BOOLEAN : ek' = MakeCompositeOpKernel(makeOk)
  /\ UNCHANGED <<seqVars, cond, registry, cells, th, restVars>>

GetOpHandler ==
  /\ \E name \in HandlerNames : ek' \in GetOpHandlerKernel(name)
  /\ UNCHANGED <<seqVars, cond, registry, cells, th, restVars>>

RegisterOpHandlerChain ==
  /\ \E name \in HandlerNames :
       /\ ek' \in RegisterOpHandlerChainKernel(name)
       /\ registry' = IF ek'.outcome = "ok" THEN registry \cup {name} ELSE registry
  /\ UNCHANGED <<seqVars, cond, cells, th, restVars>>

CreateGpuOpHandlerKernel ==
  /\ \E createOk \in BOOLEAN : ek' \in CreateGpuOpHandlerOutcomes(createOk)
  /\ UNCHANGED <<seqVars, cond, registry, cells, th, restVars>>

\* ------------------------------------------------------- TensorHandle
\* A reference is 0 (null) or the index of an AsyncValue of cells. A handle:
\*   device      the device reference after construction ("none" is {})
\*   isInline    the int of tensor_and_is_metadata_inline_
\*   inlineInit  inlined_metadata_ was constructed in place
\*   asyncInit   async_metadata_ was constructed in place
\*   asyncMeta   the reference held by async_metadata_
\*   tensor      the pointer of tensor_and_is_metadata_inline_
\*   metadata    the TensorMetadata held by inlined_metadata_ (0 if none)
\*   arg         the error reference the construction was given (0 if none)
\*   argMd, argT the metadata and payload references a constructor was given
\*   atCtor      history: the state, at construction, of the AsyncValue behind
\*               the metadata or error reference given
\*   outcome     "handle": a handle was produced; "assert": an assert() of
\*               the construction failed; "crash": it dereferenced null
CellIdx == 1..NumCells
Refs == {0} \cup CellIdx
Devices == {"none", "dev"}

\* TensorMetadata values: the metadata of the tensor in cell i, or the metadata
\* that cell i resolves to, is named i.
Metadatas == {1, 2}

CellError(i) == <<"error", "cell", i>>
CellStates(i) == {Pending, Concrete, CellError(i)}

\* The state of the AsyncValue behind a reference.
CellState(ref) == IF ref \in CellIdx THEN cells[ref] ELSE None

NoHandle ==
  [ how |-> "none", device |-> "none", isInline |-> FALSE, inlineInit |-> FALSE,
    asyncInit |-> FALSE, asyncMeta |-> 0, tensor |-> 0, arg |-> 0,
    argMd |-> 0, argT |-> 0, atCtor |-> None, outcome |-> "none", metadata |-> 0 ]

\* A construction that stopped at a failed assert() or at a null dereference.
NotConstructed(how, outcome) == [NoHandle EXCEPT !.how = how, !.outcome = outcome]

\* Mutant: the constructor tags the deferred metadata as inline.
TensorHandleAsyncTaggedInline(how, device, md, t) ==
  LET h == [ how |-> how, device |-> device, isInline |-> TRUE, inlineInit |-> FALSE,
             asyncInit |-> TRUE, asyncMeta |-> md, tensor |-> t, arg |-> 0,
             argMd |-> md, argT |-> t, atCtor |-> CellState(md),
             outcome |-> "handle", metadata |-> 0 ]
  IN IF md # 0 /\ t # 0 THEN {h} ELSE {NotConstructed(how, "assert"), h}

\* TensorHandle(device, async_metadata, tensor): the outcomes. With a null
\* reference the two assert()s stop the construction where they are compiled
\* in; elsewhere the handle is produced as the code after them builds it.
TensorHandleAsync(how, device, md, t) ==
  LET h == [ how |-> how, device |-> device, isInline |-> FALSE, inlineInit |-> FALSE,
             asyncInit |-> TRUE, asyncMeta |-> md, tensor |-> t, arg |-> 0,
             argMd |-> md, argT |-> t, atCtor |-> CellState(md),
             outcome |-> "handle", metadata |-> 0 ]
  IN IF md # 0 /\ t # 0 THEN {h} ELSE {NotConstructed(how, "assert"), h}

\* Mutant: the constructor stores the metadata in place but leaves the tag false.
TensorHandleInlineTaggedAsync(how, device, metadata, t) ==
  LET h == [ how |-> how, device |-> device, isInline |-> FALSE, inlineInit |-> TRUE,
             asyncInit |-> FALSE, asyncMeta |-> 0, tensor |-> t, arg |-> 0,
             argMd |-> 0, argT |-> t, atCtor |-> None,
             outcome |-> "handle", metadata |-> metadata ]
  IN IF t # 0 THEN {h} ELSE {NotConstructed(how, "assert"), h}

\* TensorHandle(device, metadata, tensor): the outcomes.
TensorHandleInline(how, device, metadata, t) ==
  LET h == [ how |-> how, device |-> device, isInline |-> TRUE, inlineInit |-> TRUE,
             asyncInit |-> FALSE, asyncMeta |-> 0, tensor |-> t, arg |-> 0,
             argMd |-> 0, argT |-> t, atCtor |-> None,
             outcome |-> "handle", metadata |-> metadata ]
  IN IF t # 0 THEN {h} ELSE {NotConstructed(how, "assert"), h}

\* Mutant: the error constructor passes a default (null) metadata reference.
TensorHandleFromErrorNullMetadata(e) ==
  LET made == {[h EXCEPT !.arg = e, !.atCtor = CellState(e)] : h \in TensorHandleAsync("error", "none", 0, e)}
  IN IF IsError(CellState(e)) THEN made
     ELSE made \cup {[NotConstructed("error", "assert") EXCEPT !.arg = e, !.atCtor = CellState(e)]}

\* TensorHandle(error): delegates with two copies of the error reference and
\* no device, then asserts that the reference is in the error state.
TensorHandleFromError(e) ==
  LET made == {[h EXCEPT !.arg = e, !.atCtor = CellState(e)] : h \in TensorHandleAsync("error", "none", e, e)}
  IN IF IsError(CellState(e)) THEN made
     ELSE made \cup {[NotConstructed("error", "assert") EXCEPT !.arg = e, !.atCtor = CellState(e)]}

\* Mutant: CreateError leaves the payload reference default-constructed.
CreateErrorMetadataOnly(e) ==
  LET made == {[h EXCEPT !.arg = e, !.atCtor = CellState(e)] :
                 h \in {g \in TensorHandleAsync("CreateError", "none", e, 0) :
                          g.outcome = "handle"}}
  IN IF e = 0 THEN made \cup {NotConstructed("CreateError", "crash")}
     ELSE IF IsError(CellState(e)) THEN made
     ELSE made \cup {[NotConstructed("CreateError", "assert") EXCEPT !.arg = e, !.atCtor = CellState(e)]}

\* TensorHandle::CreateError(error): the outcomes. assert(error->IsError())
\* dereferences the reference where it is compiled in.
CreateErrorHandles(e) ==
  LET made == {[h EXCEPT !.arg = e, !.atCtor = CellState(e)] :
                 h \in TensorHandleAsync("CreateError", "none", e, e)}
  IN IF e = 0 THEN made \cup {NotConstructed("CreateError", "crash")}
     ELSE IF IsError(CellState(e)) THEN made
     ELSE made \cup {[NotConstructed("CreateError", "assert") EXCEPT !.arg = e, !.atCtor = CellState(e)]}

\* TensorHandle::IsMetadataInline: the tag.
IsMetadataInline(h) == h.isInline

\* TensorHandle::IsMetadataAvailable: inline, or the deferred metadata has
\* resolved.
IsMetadataAvailable(h) ==
  IsMetadataInline(h) \/ IsAvailable(CellState(h.asyncMeta))

\* Construction with a deferred metadata reference (with or without a device).
ConstructAsync ==
  /\ \E device \in Devices, md \in Refs, t \in Refs :
       th' \in TensorHandleAsync("async", device, md, t)
  /\ UNCHANGED <<seqVars, cond, registry, ek, cells, restVars>>

\* Construction with known metadata (with or without a device).
ConstructInline ==
  /\ \E device \in Devices, metadata \in Metadatas, t \in Refs :
       th' \in TensorHandleInline("inline", device, metadata, t)
  /\ UNCHANGED <<seqVars, cond, registry, ek, cells, restVars>>

\* Construction from an AsyncValueRef<TensorHandle> error.
ConstructFromError ==
  /\ \E e \in Refs : th' \in TensorHandleFromError(e)
  /\ UNCHANGED <<seqVars, cond, registry, ek, cells, restVars>>

CreateError ==
  /\ \E e \in Refs : th' \in CreateErrorHandles(e)
  /\ UNCHANGED <<seqVars, cond, registry, ek, cells, restVars>>

\* Environment: the producer of an AsyncValue resolves it (single assignment).
ResolveCell(i) ==
  /\ cells[i] = Pending
  /\ \E v \in {Concrete, CellError(i)} : cells' = [cells EXCEPT ![i] = v]
  /\ UNCHANGED <<seqVars, cond, registry, ek, th, restVars>>

\* Mutant: operator<< looks at the metadata before it looks at an errored
\* payload.
RenderMetadataFirst(h) ==
  IF ~IsMetadataInline(h) /\ h.asyncMeta = 0 /\ h.tensor = 0
  THEN "NULL TensorHandle!"
  ELSE IF ~IsMetadataInline(h) /\ h.asyncMeta = 0
  THEN "Invalid TensorHandle with null metadata!"
  ELSE IF h.tensor = 0 THEN "Invalid TensorHandle with null tensor!"
  ELSE IF IsConcrete(CellState(h.tensor)) THEN "<tensor>"
  ELSE IF IsMetadataInline(h) THEN "future TensorHandle with metadata <metadata>"
  ELSE IF IsConcrete(CellState(h.asyncMeta))
  THEN "future TensorHandle with metadata <metadata>"
  ELSE IF IsError(CellState(h.tensor)) THEN "Error TensorHandle: '<message>'"
  ELSE IF IsError(CellState(h.asyncMeta))
  THEN "future TensorHandle with error metadata '<message>'"
  ELSE "fully future TensorHandle with unresolved metadata"

\* operator<<(raw_ostream&, const TensorHandle&): the text written, with
\* <tensor>, <metadata> and <message> standing for the printed tensor, the
\* printed metadata and the error message.
Render(h) ==
  IF ~IsMetadataInline(h) /\ h.asyncMeta = 0 /\ h.tensor = 0
  THEN "NULL TensorHandle!"
  ELSE IF ~IsMetadataInline(h) /\ h.asyncMeta = 0
  THEN "Invalid TensorHandle with null metadata!"
  ELSE IF h.tensor = 0 THEN "Invalid TensorHandle with null tensor!"
  ELSE IF IsConcrete(CellState(h.tensor)) THEN "<tensor>"
  ELSE IF IsError(CellState(h.tensor)) THEN "Error TensorHandle: '<message>'"
  ELSE IF IsMetadataInline(h) THEN "future TensorHandle with metadata <metadata>"
  ELSE IF IsConcrete(CellState(h.asyncMeta))
  THEN "future TensorHandle with metadata <metadata>"
  ELSE IF IsError(CellState(h.asyncMeta))
  THEN "future TensorHandle with error metadata '<message>'"
  ELSE "fully future TensorHandle with unresolved metadata"

\* History: which of the states of a handle is rendered. "null": all
\* internals null; "resolved" / "errored": the payload is concrete / an
\* error; "known" / "errorMeta" / "unresolved": the payload is pending and the
\* metadata is known / an error / pending; "invalid": one null reference.
StateOf(h) ==
  LET md == CellState(h.asyncMeta)
      t == CellState(h.tensor)
  IN IF h.tensor = 0 /\ ~h.isInline /\ h.asyncMeta = 0 THEN "null"
     ELSE IF h.tensor = 0 \/ (~h.isInline /\ h.asyncMeta = 0) THEN "invalid"
     ELSE IF t = Concrete THEN "resolved"
     ELSE IF IsError(t) THEN "errored"
     ELSE IF h.isInline \/ md = Concrete THEN "known"
     ELSE IF IsError(md) THEN "errorMeta"
     ELSE "unresolved"

\* os << handle, for the handle of the last construction.
RenderHandle ==
  /\ th.outcome = "handle"
  /\ Cardinality(seen) < MaxRendered
  /\ seen' = seen \cup {[state |-> StateOf(th), text |-> Render(th)]}
  /\ UNCHANGED <<seqVars, cond, registry, ek, cells, th, shapes, heap, last, attrVars, kr>>

\* ------------------------------------------------ TensorShape: values
\* Memory is modelled in bytes. A dimension (ssize_t / size_t, 8 bytes) is
\* the sequence of its bytes, least significant first; representation_ is the
\* sequence of its 16 bytes.
WordBytes == 8
RepBytes == 16
Byte == 256

WordIdx == 1..WordBytes

\* The bytes of a number below 2^31.
LE(n) ==
  <<n % Byte, (n \div Byte) % Byte, (n \div (Byte * Byte)) % Byte,
    (n \div (Byte * Byte * Byte)) % Byte, 0, 0, 0, 0>>

\* The value fits in n bytes as an unsigned number.
FitsIn(v, n) == \A i \in WordIdx : i > n => v[i] = 0

\* The 8 bytes of f, written out.
Word(f) == <<f[1], f[2], f[3], f[4], f[5], f[6], f[7], f[8]>>

\* a + b modulo 2^64.
Add64(a, b) ==
  LET c[i \in 1..WordBytes] ==
        IF i = 1 THEN 0 ELSE (a[i - 1] + b[i - 1] + c[i - 1]) \div Byte
  IN Word([i \in WordIdx |-> (a[i] + b[i] + c[i]) % Byte])

\* a * m modulo 2^64, for one byte m.
MulByte64(a, m) ==
  LET c[i \in 1..WordBytes] ==
        IF i = 1 THEN 0 ELSE (a[i - 1] * m + c[i - 1]) \div Byte
  IN Word([i \in WordIdx |-> (a[i] * m + c[i]) % Byte])

\* a * 256^n modulo 2^64.
ShiftBytes64(a, n) == Word([i \in WordIdx |-> IF i > n THEN a[i - n] ELSE 0])

RECURSIVE MulFrom64(_, _, _)
MulFrom64(a, b, j) ==
  IF j > WordBytes THEN LE(0)
  ELSE Add64(ShiftBytes64(MulByte64(a, b[j]), j - 1), MulFrom64(a, b, j + 1))

\* a * b modulo 2^64: the multiplication of two size_t.
Mul64(a, b) == MulFrom64(a, b, 1)

\* enum class RepKind : uint8_t { kRep16, kRep32, kRepExternal }.
kRep16 == 0
kRep32 == 1
kRepExternal == 2

\* Layout (positions from 1): kind and rank are the last two bytes of every
\* representation; Rep16 holds 7 dimensions of 2 bytes, Rep32 3 dimensions
\* of 4 bytes and dim3 of 2 bytes, RepExternal the pointer in its first 8.
KindPos == 15
RankPos == 16
Rep16Dims == 7
Rep32Dims == 4

\* Return the storage representation for this TensorShape.
GetRepresentationKind(r) == r[KindPos]

IsRepresentationExternal(r) == GetRepresentationKind(r) = kRepExternal

\* Mutant: the rank is read from the byte of the kind.
GetRankFromKindByte(r) == r[KindPos]

\* Returns the rank of this TensorShape.
GetRank(r) == r[RankPos]

\* representation_.rep_external.dims: the buffer the pointer bytes name
\* (buffers are numbered from 1; the pointer of buffer b is the number b).
ExternalDims(r) == r[1]

\* The constructor's choice of representation.
FitsRep16(dims) ==
  Len(dims) <= Rep16Dims /\ \A j \in 1..Len(dims) : FitsIn(dims[j], 2)

FitsRep32(dims) ==
  /\ Len(dims) <= Rep32Dims
  /\ \A j \in 1..Len(dims) : IF j < Rep32Dims THEN FitsIn(dims[j], 4) ELSE FitsIn(dims[j], 2)

KindFor(dims) ==
  IF FitsRep16(dims) THEN kRep16 ELSE IF FitsRep32(dims) THEN kRep32 ELSE kRepExternal

\* The 16 bytes of a Rep16 holding dims; unused dimensions are zero.
Rep16Of(dims) ==
  [p \in 1..RepBytes |->
     IF p = KindPos THEN kRep16
     ELSE IF p = RankPos THEN Len(dims)
     ELSE LET j == ((p - 1) \div 2) + 1
              b == ((p - 1) % 2) + 1
          IN IF j <= Len(dims) THEN dims[j][b] ELSE 0]

\* The 16 bytes of a Rep32 holding dims; unused dimensions are zero.
Rep32Of(dims) ==
  [p \in 1..RepBytes |->
     IF p = KindPos THEN kRep32
     ELSE IF p = RankPos THEN Len(dims)
     ELSE IF p > 12 THEN (IF Len(dims) = Rep32Dims THEN dims[Rep32Dims][p - 12] ELSE 0)
     ELSE LET j == ((p - 1) \div 4) + 1
              b == ((p - 1) % 4) + 1
          IN IF j <= Len(dims) THEN dims[j][b] ELSE 0]

\* The 16 bytes of a RepExternal of the given rank whose dims is buffer b.
RepExternalOf(b, rank) ==
  [p \in 1..RepBytes |->
     IF p = KindPos THEN kRepExternal
     ELSE IF p = RankPos THEN rank
     ELSE IF p = 1 THEN b ELSE 0]

\* The dimensions an inline representation holds.
InlineDimensions(r) ==
  IF GetRepresentationKind(r) = kRep16
  THEN [j \in 1..GetRank(r) |->
          [i \in WordIdx |-> IF i <= 2 THEN r[2 * (j - 1) + i] ELSE 0]]
  ELSE [j \in 1..GetRank(r) |->
          [i \in WordIdx |->
             IF j < Rep32Dims THEN (IF i <= 4 THEN r[4 * (j - 1) + i] ELSE 0)
             ELSE (IF i <= 2 THEN r[12 + i] ELSE 0)]]

\* What a read of element j of buffer b yields; a buffer that is not live
\* (or too short) yields whatever the memory holds.
Element(bufs, b, j) ==
  IF b \in DOMAIN bufs /\ j \in DOMAIN bufs[b].dims THEN bufs[b].dims[j] ELSE LE(9)

\* GetDimensions: the dimensions of a shape over the heap `bufs`.
GetDimensions(r, bufs) ==
  IF IsRepresentationExternal(r)
  THEN [j \in 1..GetRank(r) |-> Element(bufs, ExternalDims(r), j)]
  ELSE InlineDimensions(r)

\* GetDimensionSize(dim_idx), dim_idx counted from 0; asserts dim_idx < rank.
GetDimensionSize(r, bufs, i) == GetDimensions(r, bufs)[i + 1]

RECURSIVE ProductFrom(_, _)
ProductFrom(dims, j) ==
  IF j > Len(dims) THEN LE(1) ELSE Mul64(dims[j], ProductFrom(dims, j + 1))

\* Mutant: the accumulator starts at 0.
FixedRankNumElementsFromZero(dims) ==
  IF Len(dims) = 0 THEN LE(0) ELSE Mul64(LE(0), ProductFrom(dims, 1))

\* FixedRankShape<Rank>::GetNumElements: result = 1; result *= d for each
\* dimension, in size_t.
FixedRankNumElements(dims) == ProductFrom(dims, 1)

\* TensorShape::GetNumElements: all of the dimensions multiplied together.
GetNumElements(r, bufs) == ProductFrom(GetDimensions(r, bufs), 1)

\* --------------------------------------------- TensorShape: lifecycle
ShapeIdx == 1..NumShapes
BufIdx == 1..NumBuffers

\* A TensorShape that is not constructed. `from` is history: the
\* dimensions the object is meant to hold.
NoShape == [live |-> FALSE, rep |-> [p \in 1..RepBytes |-> 0], from |-> <<>>, how |-> "none"]

\* A buffer: unused | live | released; frees counts delete[] on it; uaf is
\* set when it is read after its release.
UnusedBuffer == [state |-> "unused", dims |-> <<>>, frees |-> 0, uaf |-> FALSE]

NoOp ==
  [ op |-> "none", t |-> 0, s |-> 0, srcDims |-> <<>>, srcKind |-> 0,
    dims |-> <<>>, rank |-> 0, sizes |-> <<>>, num |-> LE(0), fixedNum |-> LE(0) ]

\* new size_t[rank]: the buffers that can be handed out (none is reused).
FreshBuffers(bufs) == {b \in BufIdx : bufs[b].state = "unused"}

\* What a buffer handed out by new size_t[rank] holds before it is written.
Uninitialised(rank) == {[j \in 1..rank |-> LE(g)] : g \in {0, 9}}

\* delete[] dims.
Delete(bufs, b) ==
  [bufs EXCEPT ![b].state = "released", ![b].dims = <<>>, ![b].frees = @ + 1]

\* A read of `rank` elements of buffer b.
ReadBuffer(bufs, b) ==
  IF bufs[b].state = "live" THEN bufs ELSE [bufs EXCEPT ![b].uaf = TRUE]

\* What the destructor, and the head of both assignment operators, does
\* to the heap for an object with representation r.
Release(bufs, r) ==
  IF IsRepresentationExternal(r) THEN Delete(bufs, ExternalDims(r)) ELSE bufs

\* Mutant: the constructor leaves the bytes of unused dimensions as they were.
TensorShapeRepUnfilled(old, dims, b) ==
  LET r == IF FitsRep16(dims) THEN Rep16Of(dims)
           ELSE IF FitsRep32(dims) THEN Rep32Of(dims)
           ELSE RepExternalOf(b, Len(dims))
  IN [p \in 1..RepBytes |->
        IF p < KindPos /\ p > 2 * Len(dims) /\ r[KindPos] = kRep16 THEN old[p] ELSE r[p]]

\* TensorShape(ArrayRef<ssize_t> dims): the bytes written into storage that
\* held `old`; b is the buffer allocated when the dimensions go out of line.
TensorShapeRep(old, dims, b) ==
  IF FitsRep16(dims) THEN Rep16Of(dims)
  ELSE IF FitsRep32(dims) THEN Rep32Of(dims)
  ELSE RepExternalOf(b, Len(dims))

\* Mutant: the copy keeps the pointer of the source.
CopyRepShallow(rhs, b) == rhs

\* The representation of a copy of rhs: the bytes of rhs, with the pointer
\* replaced by the new buffer b when rhs is external.
CopyRep(rhs, b) ==
  IF IsRepresentationExternal(rhs) THEN [rhs EXCEPT ![1] = b] ELSE rhs

\* Mutant: the moved-from object only has its rank reset.
MovedFromRankOnly(rhs) ==
  IF IsRepresentationExternal(rhs) THEN [rhs EXCEPT ![RankPos] = 0] ELSE rhs

\* What a move leaves in rhs: "We're taking the memory from the RHS, reset
\* it to something valid."
MovedFrom(rhs) ==
  IF IsRepresentationExternal(rhs)
  THEN [rhs EXCEPT ![KindPos] = kRep16, ![RankPos] = 0]
  ELSE rhs

\* The record of an operation with target t and source s.
Operation(name, t, s) ==
  [NoOp EXCEPT !.op = name, !.t = t, !.s = s,
               !.srcDims = GetDimensions(shapes[s].rep, heap),
               !.srcKind = GetRepresentationKind(shapes[s].rep)]

\* What the storage of an object can hold before its constructor runs.
Storage == {[p \in 1..RepBytes |-> g] : g \in {0, 255}}

\* TensorShape(dims) in storage s.
Create(s, dims) ==
  /\ ~shapes[s].live
  /\ IF KindFor(dims) = kRepExternal
     THEN \E b \in FreshBuffers(heap), old \in Storage :
            /\ b = CHOOSE x \in FreshBuffers(heap) : \A y \in FreshBuffers(heap) : x <= y
            /\ heap' = [heap EXCEPT ![b].state = "live", ![b].dims = dims]
            /\ shapes' = [shapes EXCEPT ![s] =
                 [live |-> TRUE, rep |-> TensorShapeRep(old, dims, b),
                  from |-> dims, how |-> "create"]]
     ELSE \E old \in Storage :
          /\ heap' = heap
          /\ shapes' = [shapes EXCEPT ![s] =
               [live |-> TRUE, rep |-> TensorShapeRep(old, dims, 0),
                from |-> dims, how |-> "create"]]
  /\ last' = [NoOp EXCEPT !.op = "create", !.t = s, !.srcDims = dims]
  /\ UNCHANGED <<seqVars, cond, registry, ek, cells, th, seen, attrVars, kr>>

\* The deep copy both copy operations make into t after the memcpy, over the
\* heap bufs: a new buffer, filled from rhs.representation_.rep_external.dims
\* as it is at that point.
DeepCopy(t, s, bufs, how) ==
  LET rhs == shapes[s].rep IN
  IF IsRepresentationExternal(rhs)
  THEN \E b \in FreshBuffers(bufs), junk \in Uninitialised(GetRank(rhs)) :
         /\ b = CHOOSE x \in FreshBuffers(bufs) : \A y \in FreshBuffers(bufs) : x <= y
         /\ LET copied == CopyRep(rhs, b)
                \* with t = s the source pointer already is the new buffer
                srcBuf == IF t = s THEN ExternalDims(copied) ELSE ExternalDims(rhs)
                read == IF srcBuf = b THEN bufs ELSE ReadBuffer(bufs, srcBuf)
            IN /\ heap' = [read EXCEPT ![b].state = "live",
                                       ![b].dims = [j \in 1..GetRank(rhs) |->
                                                      IF srcBuf = b THEN junk[j]
                                                      ELSE Element(bufs, srcBuf, j)]]
               /\ shapes' = [shapes EXCEPT ![t] =
                    [live |-> TRUE, rep |-> copied, from |-> shapes[s].from, how |-> how]]
  ELSE /\ heap' = bufs
       /\ shapes' = [shapes EXCEPT ![t] =
            [live |-> TRUE, rep |-> rhs, from |-> shapes[s].from, how |-> how]]

\* TensorShape(const TensorShape& rhs), constructing t from s.
CopyConstruct(t, s) ==
  /\ t # s /\ ~shapes[t].live /\ shapes[s].live
  /\ DeepCopy(t, s, heap, "copy")
  /\ last' = Operation("copyConstruct", t, s)
  /\ UNCHANGED <<seqVars, cond, registry, ek, cells, th, seen, attrVars, kr>>

\* operator=(const TensorShape& rhs), t = s; t and s may be the same object.
CopyAssign(t, s) ==
  /\ shapes[t].live /\ shapes[s].live
  /\ DeepCopy(t, s, Release(heap, shapes[t].rep), "copy")
  /\ last' = Operation("copyAssign", t, s)
  /\ UNCHANGED <<seqVars, cond, registry, ek, cells, th, seen, attrVars, kr>>

\* The shapes after t took the representation of s by memcpy and s was reset.
Moved(t, s) ==
  LET rhs == shapes[s].rep
      taken == [shapes EXCEPT ![t] =
                  [live |-> TRUE, rep |-> rhs, from |-> shapes[s].from, how |-> "move"]]
  IN [taken EXCEPT ![s].rep = MovedFrom(rhs), ![s].how = "movedFrom"]

\* TensorShape(TensorShape&& rhs), constructing t from s.
MoveConstruct(t, s) ==
  /\ t # s /\ ~shapes[t].live /\ shapes[s].live
  /\ shapes' = Moved(t, s)
  /\ heap' = heap
  /\ last' = Operation("moveConstruct", t, s)
  /\ UNCHANGED <<seqVars, cond, registry, ek, cells, th, seen, attrVars, kr>>

\* operator=(TensorShape&& rhs), t = std::move(s); t and s may be the same object.
MoveAssign(t, s) ==
  /\ shapes[t].live /\ shapes[s].live
  /\ heap' = Release(heap, shapes[t].rep)
  /\ shapes' = Moved(t, s)
  /\ last' = Operation("moveAssign", t, s)
  /\ UNCHANGED <<seqVars, cond, registry, ek, cells, th, seen, attrVars, kr>>

\* ~TensorShape() of the object in storage s.
Destroy(s) ==
  /\ shapes[s].live
  /\ heap' = Release(heap, shapes[s].rep)
  /\ shapes' = [shapes EXCEPT ![s] = NoShape]
  /\ last' = [NoOp EXCEPT !.op = "destroy", !.s = s]
  /\ UNCHANGED <<seqVars, cond, registry, ek, cells, th, seen, attrVars, kr>>

\* The accessors applied to the object in storage s: GetDimensions, GetRank,
\* GetDimensionSize for every index below the rank, GetNumElements, and
\* FixedRankShape(shape).GetNumElements().
Query(s) ==
  /\ shapes[s].live
  /\ LET r == shapes[s].rep
         read == IF IsRepresentationExternal(r) /\ GetRank(r) > 0
                 THEN ReadBuffer(heap, ExternalDims(r)) ELSE heap
         dims == GetDimensions(r, heap)
     IN /\ heap' = read
        /\ last' = [NoOp EXCEPT !.op = "query", !.s = s,
                      !.srcKind = GetRepresentationKind(r),
                      !.dims = dims,
                      !.rank = GetRank(r),
                      !.sizes = [i \in 1..GetRank(r) |-> GetDimensionSize(r, heap, i - 1)],
                      !.num = GetNumElements(r, heap),
                      !.fixedNum = FixedRankNumElements(dims)]
  /\ UNCHANGED <<seqVars, cond, registry, ek, cells, th, seen, shapes, attrVars, kr>>

\* operator==(const TensorShape& other): the kinds first, then the 16 bytes
\* of two inline shapes, or the ranks and the elements of two external ones.
ShapesEqual(r1, r2, bufs) ==
  IF GetRepresentationKind(r1) # GetRepresentationKind(r2) THEN FALSE
  ELSE IF IsRepresentationExternal(r1)
  THEN GetRank(r1) = GetRank(r2) /\ GetDimensions(r1, bufs) = GetDimensions(r2, bufs)
  ELSE \A p \in 1..RepBytes : r1[p] = r2[p]

\* ------------------------------------------------------- BEF attributes
\* The number of sub-attributes of the aggregates tried.
MaxElems == 2

\* BEFAttributeType: the form of the attribute and, for a data type, array
\* or dense attribute, its BEFDataType.
kI32 == [form |-> "data", dtype |-> "i32"]
kF32 == [form |-> "data", dtype |-> "f32"]
kType == [form |-> "type", dtype |-> "none"]
kShape == [form |-> "shape", dtype |-> "none"]
kAggregate == [form |-> "aggregate", dtype |-> "none"]
kEmptyArray == [form |-> "array", dtype |-> "unsupported"]

IsDataTypeAttribute(type) == type.form = "data"
IsArrayAttribute(type) == type.form = "array"
GetDataType(type) == type.dtype

\* The types of the sub-attributes tried, and what each occupies after an
\* aggregate's offset table, in units of the smallest attribute.
ElemTypes == {kI32, kShape, kEmptyArray}
SizeOf(type) == IF type = kShape THEN 2 ELSE 1

\* The offsets of the sub-attributes types[j..], the first of them at o.
RECURSIVE Place(_, _, _)
Place(types, j, o) ==
  IF j > Len(types) THEN <<>>
  ELSE <<o>> \o Place(types, j + 1, o + SizeOf(types[j]))

\* The buffer of an attribute of type top with the sub-attributes `types`:
\* the BEFAggregateAttr header at offset 0 (num_elements, offsets) and the
\* BEFAttrBase type of every header in the buffer, by offset.
Aggregate(top, types) ==
  LET offs == Place(types, 1, 1 + Len(types))
  IN [ num_elements |-> Len(types),
       offsets |-> offs,
       type |-> [o \in {0} \cup {offs[i] : i \in 1..Len(types)} |->
                   IF o = 0 THEN top
                   ELSE types[CHOOSE i \in 1..Len(types) : offs[i] = o]] ]

NoBuffer == [num_elements |-> 0, offsets |-> <<>>, type |-> <<>>]

\* The well-formed buffers tried: aggregates of up to MaxElems sub-attributes
\* and the empty typed array.
Buffers ==
  {Aggregate(kAggregate, types) :
     types \in UNION {[1..n -> ElemTypes] : n \in 0..MaxElems}}
  \cup {Aggregate(kEmptyArray, <<>>)}

\* The concrete view classes tried.
Classes == {"I32Attr", "F32Attr", "TypeAttr", "ShapeAttr", "ArrayAttr", "AggregateAttr"}

\* T::classof(base), on the type of the header the view is over.
classof(T, type) ==
  CASE T = "I32Attr" -> IsDataTypeAttribute(type) /\ GetDataType(type) = "i32"
    [] T = "F32Attr" -> IsDataTypeAttribute(type) /\ GetDataType(type) = "f32"
    [] T = "TypeAttr" -> type = kType
    [] T = "ShapeAttr" -> type = kShape
    [] T = "ArrayAttr" -> IsArrayAttribute(type)
    [] T = "AggregateAttr" -> type = kAggregate \/ type = kEmptyArray

\* TypedAttrBase::isa<T>() of a view at `base` of buffer buf.
isa(T, buf, base) == classof(T, buf.type[base])

\* The outcome of an operation on a view: it failed an assertion, it
\* returned a view of class T over base, or (after a read outside the offset
\* table) it did whatever the build does.
NoView ==
  [ op |-> "none", asserts |-> FALSE, index |-> 0, from |-> 0,
    outcome |-> "none", class |-> "", base |-> 0 ]

AssertionFailed == [NoView EXCEPT !.outcome = "assert"]
View(T, base) == [NoView EXCEPT !.outcome = "view", !.class = T, !.base = base]
Undefined == [NoView EXCEPT !.outcome = "undefined"]

\* Mutant: the constructor of a concrete view does not test the type.
AttrHeaderBaseUnchecked(T, buf, base, asserts) == View(T, base)

\* AttrHeaderBase(const void* data); asserts: assert() is compiled in.
AttrHeaderBase(T, buf, base, asserts) ==
  IF asserts /\ ~isa(T, buf, base) THEN AssertionFailed ELSE View(T, base)

\* TypedAttrBase::cast<T>() of the view at base.
cast(T, buf, base, asserts) ==
  IF asserts /\ ~isa(T, buf, base) THEN AssertionFailed
  ELSE AttrHeaderBase(T, buf, base, asserts)

\* The null pointer as the base of a view.
NullBase == -1

\* T(nullptr): AttrHeaderBase(const void* data) over the null pointer. Its
\* assertion evaluates isa<AttrClass>(), which reads base_->type.
AttrHeaderBaseOfNull(T, asserts) ==
  IF asserts THEN Undefined ELSE View(T, NullBase)

\* TypedAttrBase::dyn_cast<T>() of the view at base.
dyn_cast(T, buf, base, asserts) ==
  IF isa(T, buf, base) THEN AttrHeaderBase(T, buf, base, asserts)
  ELSE AttrHeaderBaseOfNull(T, asserts)

\* An int converted to size_t.
SizeT(n) ==
  IF n >= 0 THEN LE(n) ELSE Word([i \in WordIdx |-> (Byte - 1) - LE(-(n + 1))[i]])

\* a < b as unsigned 64-bit numbers, decided at byte i or below.
RECURSIVE LessFrom64(_, _, _)
LessFrom64(a, b, i) ==
  IF i = 0 THEN FALSE
  ELSE IF a[i] # b[i] THEN a[i] < b[i]
  ELSE LessFrom64(a, b, i - 1)

Less64(a, b) == LessFrom64(a, b, WordBytes)

\* header().offsets[index]: the entry of the table, or a read outside it.
OffsetAt(buf, index) ==
  IF index + 1 \in 1..buf.num_elements
  THEN View("TypedAttrBase", buf.offsets[index + 1])
  ELSE Undefined

\* Mutant: the bound is tested on the int, not on its conversion to size_t.
GetAttributeSignedBound(buf, index, asserts) ==
  IF asserts /\ ~(index < buf.num_elements) THEN AssertionFailed
  ELSE OffsetAt(buf, index)

\* AggregateAttr::GetAttribute(int index).
GetAttribute(buf, index, asserts) ==
  IF asserts /\ ~Less64(SizeT(index), LE(buf.num_elements)) THEN AssertionFailed
  ELSE OffsetAt(buf, index)

\* AggregateAttr::GetAttributeOfType<AttrClass>(int index).
GetAttributeOfType(T, buf, index, asserts) ==
  LET element == GetAttribute(buf, index, asserts)
  IN IF element.outcome = "view" THEN cast(T, buf, element.base, asserts)
     ELSE element

\* The indices tried: from -1 to past the end of the largest table.
Indices == -1..(MaxElems + 1)

\* A buffer is written.
Encode(buf) ==
  /\ abuf = NoBuffer
  /\ abuf' = buf
  /\ tv' = NoView
  /\ UNCHANGED <<seqVars, cond, registry, ek, cells, th, seen, shapes, heap, last, kr>>

\* The result r of the operation op, with what it was applied to.
Applied(op, r, index, from, asserts) ==
  [r EXCEPT !.op = op, !.index = index, !.from = from, !.asserts = asserts]

\* AggregateAttr(data).GetAttribute(index) on the buffer.
GetAttributeAt(index, asserts) ==
  /\ abuf # NoBuffer
  /\ tv' = Applied("GetAttribute", GetAttribute(abuf, index, asserts), index, 0, asserts)
  /\ UNCHANGED <<seqVars, cond, registry, ek, cells, th, seen, shapes, heap, last, abuf, kr>>

\* AggregateAttr(data).GetAttributeOfType<T>(index) on the buffer.
GetAttributeOfTypeAt(T, index, asserts) ==
  /\ abuf # NoBuffer
  /\ tv' = [Applied("GetAttributeOfType", GetAttributeOfType(T, abuf, index, asserts),
                    index, 0, asserts) EXCEPT !.class = T]
  /\ UNCHANGED <<seqVars, cond, registry, ek, cells, th, seen, shapes, heap, last, abuf, kr>>

\* TypedAttrBase(base).cast<T>() for a header of the buffer.
Cast(T, base, asserts) ==
  /\ abuf # NoBuffer /\ base \in DOMAIN abuf.type
  /\ tv' = [Applied("cast", cast(T, abuf, base, asserts), 0, base, asserts)
              EXCEPT !.class = T]
  /\ UNCHANGED <<seqVars, cond, registry, ek, cells, th, seen, shapes, heap, last, abuf, kr>>

\* TypedAttrBase(base).dyn_cast<T>() for a header of the buffer.
DynCast(T, base, asserts) ==
  /\ abuf # NoBuffer /\ base \in DOMAIN abuf.type
  /\ tv' = [Applied("dyn_cast", dyn_cast(T, abuf, base, asserts), 0, base, asserts)
              EXCEPT !.class = T]
  /\ UNCHANGED <<seqVars, cond, registry, ek, cells, th, seen, shapes, heap, last, abuf, kr>>

\* T(data) for a header of the buffer.
Construct(T, base, asserts) ==
  /\ abuf # NoBuffer /\ base \in DOMAIN abuf.type
  /\ tv' = [Applied("construct", AttrHeaderBase(T, abuf, base, asserts), 0, base, asserts)
              EXCEPT !.class = T]
  /\ UNCHANGED <<seqVars, cond, registry, ek, cells, th, seen, shapes, heap, last, abuf, kr>>

\* The offsets a header can be at.
Offsets == 0..(1 + MaxElems + 2 * MaxElems)

\* ------------------------------------------------------- tensor kernels
\* The last invocation of one of the tensor kernels of the core runtime:
\*   op         the kernel
\*   h          the handle it was given, or the handle it returned
\*   arg, out   the AsyncValue it was given and the one it returned (0: none)
\*   result     "handle", "tensor", "shape" or "error": what it returned;
\*              "indirect": an indirect AsyncValue not forwarded yet;
\*              "undefined": the call had undefined behaviour
\*   shape      the shape returned: the shape of the metadata of this name
\*   fwd, to    how often the indirect result was forwarded, and to what
\*   readError  the metadata was read from an AsyncValue in the error state
\*   null       the allocation of the kernel returned nothing
\*   failed     the step of the kernel that failed
\*   message    the message of the error returned
\*   writes     the elements written into the payload
\*   concrete   the AsyncValue the kernel set concrete (0: none)
NoKernel ==
  [ op |-> "none", h |-> NoHandle, arg |-> 0, out |-> 0, result |-> "none",
    shape |-> 0, fwd |-> 0, to |-> <<"none", 0>>, readError |-> FALSE,
    null |-> FALSE, failed |-> "none", message |-> "", writes |-> 0, concrete |-> 0 ]

\* The variables a tensor kernel leaves alone, th and cells apart.
kernelFrame == <<seqVars, cond, registry, ek, seen, shapes, heap, last, attrVars>>

\* HTToTensorHandle(arg): a handle with no device, the metadata of the host
\* tensor in arg, and arg itself as its tensor.
HTToTensorHandle(arg) == TensorHandleInline("HTToTensorHandle", "none", arg, arg)

\* Mutant: TensorHandleToHT returns the metadata reference of the handle.
TensorHandleToHTReturnsMetadata(h) == h.asyncMeta

\* TensorHandleToHT(arg): a reference to the AsyncValue of the handle's tensor.
TensorHandleToHT(h) == h.tensor

\* The host tensor argument of a kernel is a concrete AsyncValue.
CallHTToTensorHandle ==
  /\ \E arg \in CellIdx :
       /\ cells[arg] = Concrete
       /\ th' \in HTToTensorHandle(arg)
       /\ kr' = [NoKernel EXCEPT !.op = "HTToTensorHandle", !.arg = arg, !.h = th',
                                 !.result = "handle"]
  /\ UNCHANGED <<kernelFrame, cells>>

CallTensorHandleToHT ==
  /\ th.outcome = "handle" /\ th.tensor # 0
  /\ kr' = [NoKernel EXCEPT !.op = "TensorHandleToHT", !.h = th,
                            !.out = TensorHandleToHT(th), !.result = "tensor"]
  /\ UNCHANGED <<kernelFrame, cells, th>>

\* TensorHandle::GetAvailableMetadata: the inline metadata, or the value of
\* the deferred metadata; of an AsyncValue in the error state that value is
\* not there to read, and the read returns anything or stops the program.
GetAvailableMetadata(h) ==
  IF IsMetadataInline(h) THEN {h.metadata}
  ELSE IF IsConcrete(CellState(h.asyncMeta)) THEN {h.asyncMeta}
  ELSE {0} \cup Metadatas

\* TensorHandle::GetAsyncMetadata: the deferred metadata reference.
GetAsyncMetadata(h) == h.asyncMeta

\* TensorHandleToShape(arg, result, exec_ctx) up to its return: the shape at
\* once if the metadata is available, else an indirect result.
TensorHandleToShape(h) ==
  IF IsMetadataAvailable(h)
  THEN {[NoKernel EXCEPT !.op = "TensorHandleToShape", !.h = h,
                         !.result = IF md = 0 THEN "undefined" ELSE "shape",
                         !.shape = md,
                         !.readError = ~IsMetadataInline(h) /\ IsError(CellState(h.asyncMeta))] :
           md \in GetAvailableMetadata(h)}
  ELSE {[NoKernel EXCEPT !.op = "TensorHandleToShape", !.h = h, !.result = "indirect"]}

\* A handle with its metadata in place or behind a reference.
CallTensorHandleToShape ==
  /\ th.outcome = "handle" /\ (IsMetadataInline(th) \/ th.asyncMeta # 0)
  /\ kr' \in TensorHandleToShape(th)
  /\ UNCHANGED <<kernelFrame, cells, th>>

\* The waiter TensorHandleToShape put on the metadata: it runs once, when the
\* metadata is available, and forwards the indirect result to the error or to
\* a new AsyncValue holding the shape.
MetadataAndThen ==
  /\ kr.op = "TensorHandleToShape" /\ kr.result = "indirect" /\ kr.fwd = 0
  /\ IsAvailable(CellState(GetAsyncMetadata(kr.h)))
  /\ kr' = [kr EXCEPT !.fwd = @ + 1,
                      !.to = IF IsError(CellState(GetAsyncMetadata(kr.h)))
                             THEN <<"cell", GetAsyncMetadata(kr.h)>>
                             ELSE <<"shape", GetAsyncMetadata(kr.h)>>]
  /\ UNCHANGED <<kernelFrame, cells, th>>

\* A kernel that returns an error.
KernelError(op, failed, message) ==
  [NoKernel EXCEPT !.op = op, !.result = "error", !.failed = failed, !.message = message]

\* A kernel that filled the tensor in t and returns a handle on it.
KernelHandle(op, n, t) ==
  {[NoKernel EXCEPT !.op = op, !.result = "handle", !.h = h, !.writes = n, !.concrete = t] :
     h \in TensorHandleInline(op, "none", t, t)}

\* ConstStringTensor(shape, value, exec_ctx) with n strings, where
\* MakeConstructedAsyncValueRef returned t (0: a null reference).
ConstStringTensor(n, t) ==
  IF t = 0
  THEN {KernelError("ConstStringTensor", "allocation", "failed to allocate string host tensor")}
  ELSE KernelHandle("ConstStringTensor", n, t)

\* ConstDenseTensor(value, context), where the deserialization succeeded or
\* not and MakeAvailableAsyncValueRef returned t.
ConstDenseTensor(deserialized, t) ==
  IF ~deserialized
  THEN {KernelError("ConstDenseTensor", "deserialization", "<error of the deserialization>")}
  ELSE IF t = 0
  THEN {KernelError("ConstDenseTensor", "allocation", "failed to allocate dense host tensor")}
  ELSE KernelHandle("ConstDenseTensor", 0, t)

\* Mutant: CreateDenseTensor copies the elements without looking at the
\* reference it was given.
CreateDenseTensorUnchecked(n, t) == KernelHandle("CreateDenseTensor", n, t)

\* CreateDenseTensor<DType>(shape, value, context) with n elements, where
\* MakeConstructedAsyncValueRef returned t.
CreateDenseTensor(n, t) ==
  IF t = 0
  THEN {KernelError("CreateDenseTensor", "allocation", "failed to allocate dense host tensor")}
  ELSE KernelHandle("CreateDenseTensor", n, t)

\* TfUnaryOp<UnaryFunctor>(input, output_md, exec_ctx) on an input of n
\* elements, where CreateUninitialized returned a tensor or not and the
\* dtype of the input is a floating-point one or not.
TfUnaryOp(n, dest, float) ==
  IF ~dest
  THEN KernelError("TfUnaryOp", "allocation", "out of memory allocating result")
  ELSE IF ~float
  THEN KernelError("TfUnaryOp", "dtype", "unsupported dtype")
  ELSE [NoKernel EXCEPT !.op = "TfUnaryOp", !.result = "tensor", !.writes = n]

\* What a kernel that allocates leaves behind: its result, with the outcome
\* of its allocation as history; the handle if it returned one; and the
\* AsyncValue of the tensor in the concrete state.
Returned(r, null) ==
  /\ kr' = [r EXCEPT !.null = null]
  /\ th' = IF r.result = "handle" THEN r.h ELSE th
  /\ cells' = IF r.concrete \in CellIdx THEN [cells EXCEPT ![r.concrete] = Concrete] ELSE cells
  /\ UNCHANGED kernelFrame

\* The references an allocation of an AsyncValue can return: null, or an
\* AsyncValue nothing has resolved.
Allocated == {0} \cup {t \in CellIdx : cells[t] = Pending}

CallConstStringTensor ==
  \E n \in 0..MaxElems, t \in Allocated : \E r \in ConstStringTensor(n, t) : Returned(r, t = 0)

CallConstDenseTensor ==
  \E deserialized \in BOOLEAN, t \in Allocated :
    \E r \in ConstDenseTensor(deserialized, t) : Returned(r, deserialized /\ t = 0)

CallCreateDenseTensor ==
  \E n \in 0..MaxElems, t \in Allocated : \E r \in CreateDenseTensor(n, t) : Returned(r, t = 0)

CallTfUnaryOp ==
  \E n \in 0..MaxElems, dest \in BOOLEAN, float \in BOOLEAN : Returned(TfUnaryOp(n, dest, float), ~dest)

\* ------------------------------------------------------- specifications
\* Nothing has been rendered.
RestIdle ==
  /\ seen = {}
  /\ shapes = [s \in ShapeIdx |-> NoShape]
  /\ heap = [b \in BufIdx |-> UnusedBuffer]
  /\ last = NoOp
  /\ abuf = NoBuffer
  /\ tv = NoView
  /\ kr = NoKernel

\* The other kernels have not run and no TensorHandle has been constructed.
ExtIdle ==
  /\ registry = {}
  /\ ek = EntryIdle
  /\ cells = [i \in CellIdx |-> Pending]
  /\ th = NoHandle
  /\ RestIdle

Init ==
  /\ runtime \in BOOLEAN
  /\ opHandler = [c \in Calls |-> Pending]
  /\ argv = [c \in Calls |-> [i \in ArgIdx |-> Pending]]
  /\ chain0 = Pending
  /\ makeOpOk \in [Calls -> BOOLEAN]
  /\ k = [c \in Calls |-> IdleCall]
  /\ cond = CondIdle([format |-> "dense", kind |-> "i32", value |-> 0, strings |-> <<>>])
  /\ ExtIdle

\* One ExecuteOpSeq call (call 1) and its environment.
Next ==
  \/ Call(1)
  \/ Continuation(1)
  \/ OpChainReady(1)
  \/ ResolveHandler(1)
  \/ \E i \in ArgIdx : ResolveArg(1, i)
  \/ ResolveChain
  \/ OpComplete(1)

Spec == Init /\ [][Next]_vars

\* One ExecuteOpSeq call under fair scheduling: a continuation whose
\* AsyncValues are all available is run, a waiter on an available chain is
\* run, and every producer (of op_handler, of an argument, of in_op_chain, of
\* a dispatched op's completion chain) eventually delivers.
Fairness ==
  /\ WF_vars(Continuation(1))
  /\ WF_vars(OpChainReady(1))
  /\ WF_vars(ResolveHandler(1))
  /\ \A i \in ArgIdx : WF_vars(ResolveArg(1, i))
  /\ WF_vars(ResolveChain)
  /\ WF_vars(OpComplete(1))

SpecLive == Init /\ [][Next]_vars /\ Fairness

\* Two ExecuteOpSeq calls, the second consuming the out chain of the first.
NextChained ==
  \/ \E c \in Calls : Call(c)
  \/ \E c \in Calls : Continuation(c)
  \/ \E c \in Calls : OpChainReady(c)
  \/ \E c \in Calls : ResolveHandler(c)
  \/ \E c \in Calls, i \in ArgIdx : ResolveArg(c, i)
  \/ ResolveChain
  \/ \E c \in Calls : OpComplete(c)

SpecChained == Init /\ [][NextChained]_vars

InitCond ==
  /\ runtime = TRUE
  /\ opHandler = [c \in Calls |-> Pending]
  /\ argv = [c \in Calls |-> [i \in ArgIdx |-> Pending]]
  /\ chain0 = Pending
  /\ makeOpOk = [c \in Calls |-> TRUE]
  /\ k = [c \in Calls |-> IdleCall]
  /\ cond \in {CondIdle(ct) : ct \in ValidContents}
  /\ ExtIdle

NextCond ==
  \/ CondCall
  \/ OnHandleReady
  \/ OnTensorReady
  \/ OnHostTensorReady
  \/ CondResolveHandle
  \/ CondResolveTensor
  \/ CondResolveHostTensor
  \/ \E i \in ArgIdx : CondResolveArg(i)

\* One corert.cond invocation.
SpecCond == InitCond /\ [][NextCond]_vars

\* The kernels that look up the runtime, invoked in any order, with or
\* without a bound runtime.
NextEntry ==
  \/ Call(1)
  \/ ExecuteOp
  \/ ExecuteCoreRuntimeOp
  \/ MakeCompositeOp
  \/ GetOpHandler
  \/ RegisterOpHandlerChain
  \/ CreateGpuOpHandlerKernel

SpecEntry == Init /\ [][NextEntry]_vars

\* TensorHandle constructions over AsyncValues in any state, and the
\* resolution of those AsyncValues.
InitTH ==
  /\ runtime = TRUE
  /\ opHandler = [c \in Calls |-> Pending]
  /\ argv = [c \in Calls |-> [i \in ArgIdx |-> Pending]]
  /\ chain0 = Pending
  /\ makeOpOk = [c \in Calls |-> TRUE]
  /\ k = [c \in Calls |-> IdleCall]
  /\ cond = CondIdle([format |-> "dense", kind |-> "i32", value |-> 0, strings |-> <<>>])
  /\ registry = {}
  /\ ek = EntryIdle
  /\ cells \in {f \in [CellIdx -> {Pending, Concrete} \cup {CellError(j) : j \in CellIdx}] :
                  \A i \in CellIdx : f[i] \in CellStates(i)}
  /\ th = NoHandle
  /\ RestIdle

NextTH ==
  \/ ConstructAsync
  \/ ConstructInline
  \/ ConstructFromError
  \/ CreateError
  \/ \E i \in CellIdx : ResolveCell(i)

SpecTH == InitTH /\ [][NextTH]_vars

\* HTToTensorHandle and TensorHandleToHT, over the handles the first returns
\* and the handles constructed on an error.
NextHT ==
  \/ CreateError
  \/ \E i \in CellIdx : ResolveCell(i)
  \/ CallHTToTensorHandle
  \/ CallTensorHandleToHT

SpecHT == InitTH /\ [][NextHT]_vars

\* TensorHandleToShape and its waiter, over handles with the metadata in
\* place or behind a metadata future in any state.
NextToShape ==
  \/ ConstructAsync
  \/ \E i \in CellIdx : ResolveCell(i)
  \/ CallHTToTensorHandle
  \/ CallTensorHandleToShape
  \/ MetadataAndThen

SpecToShape == InitTH /\ [][NextToShape]_vars

\* The kernels that allocate a tensor, over AsyncValues in any state.
NextConst ==
  \/ \E i \in CellIdx : ResolveCell(i)
  \/ CallConstStringTensor
  \/ CallConstDenseTensor
  \/ CallCreateDenseTensor
  \/ CallTfUnaryOp

SpecConst == InitTH /\ [][NextConst]_vars

\* TensorHandle constructions, resolutions, and renderings of the handles.
NextRender ==
  \/ ConstructAsync
  \/ ConstructInline
  \/ ConstructFromError
  \/ CreateError
  \/ \E i \in CellIdx : ResolveCell(i)
  \/ RenderHandle

SpecRender == InitTH /\ [][NextRender]_vars

\* The dimension sizes tried: 0, small sizes, and the sizes on both sides of
\* the 16-bit and of the 32-bit limit.
Max32 == <<255, 255, 255, 255, 0, 0, 0, 0>>
Pow32 == ShiftBytes64(LE(1), 4)
DimValues == {LE(0), LE(2), LE(65535), LE(65536), Max32, Pow32}

\* The dimension lists tried: the scalar, [2,3,4], [2^32, 2^32], and every
\* list up to MaxRank of 1s or of 3s with one position replaced by a size of
\* DimValues.
DimLists ==
  {<<>>, <<LE(2), LE(3), LE(4)>>, <<Pow32, Pow32>>}
  \cup UNION {{[j \in 1..n |-> IF j = p THEN v ELSE base] :
                 p \in 1..n, v \in DimValues, base \in {LE(1), LE(3)}} : n \in 1..MaxRank}

\* One shape, created from any list of DimLists, queried, destroyed.
InitShape ==
  /\ Init
  /\ runtime = TRUE
  /\ makeOpOk = [c \in Calls |-> TRUE]

NextShape ==
  \/ \E dims \in DimLists : Create(1, dims)
  \/ Query(1)
  \/ Destroy(1)

SpecShape == InitShape /\ [][NextShape]_vars

\* One list for each of the three representations.
LifeDimLists == {<<LE(2), LE(3)>>, <<LE(65536), LE(3)>>, <<LE(3), Pow32>>}

\* Shapes created, copied, moved, assigned and destroyed in any order.
NextShapeLife ==
  \/ \E s \in ShapeIdx, dims \in LifeDimLists : Create(s, dims)
  \/ \E t \in ShapeIdx, s \in ShapeIdx : CopyConstruct(t, s)
  \/ \E t \in ShapeIdx, s \in ShapeIdx : MoveConstruct(t, s)
  \/ \E t \in ShapeIdx, s \in ShapeIdx : CopyAssign(t, s)
  \/ \E t \in ShapeIdx, s \in ShapeIdx : MoveAssign(t, s)
  \/ \E s \in ShapeIdx : Destroy(s)

SpecShapeLife == InitShape /\ [][NextShapeLife]_vars

\* Typed views over one attribute buffer.
NextAttr ==
  \/ \E buf \in Buffers : Encode(buf)
  \/ \E index \in Indices, asserts \in BOOLEAN : GetAttributeAt(index, asserts)
  \/ \E T \in Classes, index \in Indices, asserts \in BOOLEAN :
       GetAttributeOfTypeAt(T, index, asserts)
  \/ \E T \in Classes, base \in Offsets, asserts \in BOOLEAN : Cast(T, base, asserts)
  \/ \E T \in Classes, base \in Offsets, asserts \in BOOLEAN : Construct(T, base, asserts)
  \/ \E T \in Classes, base \in Offsets, asserts \in BOOLEAN : DynCast(T, base, asserts)

SpecAttr == InitShape /\ [][NextAttr]_vars

\* =============================================================== claims

\* The kernel of call c has taken its decision (dispatch or error propagation).
Decided(c) == k[c].pc \in {"awaitOp", "done"}

\* C1: when exactly one argument is an error E at call time and the op
\* handler, the other arguments and in_op_chain carry no error, every result
\* and the out chain of the call end up as E.
C1_ArgErrorReachesAllOutputs ==
  \A c \in Calls : \A i \in ArgIdx :
    ( /\ runtime
      /\ Decided(c)
      /\ k[c].errAtCall = {i}
      /\ ~IsError(opHandler[c])
      /\ ~IsError(InChain(c))
      /\ \A j \in ArgIdx \ {i} : ~IsError(argv[c][j]) )
    => /\ \A r \in ResIdx : k[c].results[r] = argv[c][i]
       /\ OutChain(c) = argv[c][i]

\* C2: when an argument is an error at call time, the call invokes neither
\* MakeOp nor ExecuteOpImpl.
C2_ArgErrorNoMakeOpNoDispatch ==
  \A c \in Calls :
    k[c].errAtCall # {} => k[c].makeOps = 0 /\ k[c].dispatches = 0

\* C3: the op is dispatched only when in_op_chain, the op handler and every
\* argument are available.
C3_DispatchAfterInChain ==
  \A c \in Calls :
    k[c].dispatches > 0 =>
      /\ IsAvailable(k[c].chainAtDispatch)
      /\ IsAvailable(opHandler[c])
      /\ \A i \in ArgIdx : IsAvailable(argv[c][i])

\* C4: once the op is dispatched, the out chain is available only if the op's
\* completion chain is, and it is an error exactly when the completion chain
\* is an error, a concrete chain otherwise.
C4_OutChainFollowsOpChain ==
  \A c \in Calls :
    (k[c].dispatches > 0 /\ IsAvailable(OutChain(c))) =>
      /\ IsAvailable(k[c].opChain)
      /\ IsError(OutChain(c)) <=> IsError(k[c].opChain)
      /\ ~IsError(OutChain(c)) => OutChain(c) = Concrete

\* C4 witness: a call dispatched from its continuation whose op completed with
\* an error that has reached the out chain.
C4_Witness ==
  \E c \in Calls :
    /\ k[c].path = "slow"
    /\ k[c].dispatches = 1
    /\ k[c].pc = "done"
    /\ k[c].opChain = OpError(c)
    /\ IsError(OutChain(c))

\* C5: call 2 consumes the out chain of call 1; the op of call 2 is dispatched
\* only when the op of call 1 has completed and the out chain of call 1 is
\* available.
C5_ChainedOpsOrdered ==
  k[2].dispatches > 0 =>
    /\ IsAvailable(OutChain(1))
    /\ k[1].dispatches > 0 => IsAvailable(k[1].opChain)

\* C6: when in_op_chain is an error E at the moment the kernel decides (op
\* handler and arguments carrying no error), the out chain and every result
\* are E and neither MakeOp nor ExecuteOpImpl is invoked, on the fast path
\* and on the continuation path.
C6_InChainErrorShortCircuits ==
  \A c \in Calls :
    ( /\ runtime
      /\ Decided(c)
      /\ IsError(k[c].chainAtStart)
      /\ ~IsError(opHandler[c])
      /\ \A i \in ArgIdx : ~IsError(argv[c][i]) )
    => /\ OutChain(c) = k[c].chainAtStart
       /\ \A r \in ResIdx : k[c].results[r] = k[c].chainAtStart
       /\ k[c].makeOps = 0
       /\ k[c].dispatches = 0

\* An error of the condition that a continuation of corert.cond has handled.
CondHandledErrors ==
  (IF cond.stage \notin {"idle", "waitTH"} /\ IsError(cond.th) THEN {cond.th} ELSE {})
  \cup (IF /\ cond.stage \in {"waitHT", "done", "crashed"}
           /\ ~IsError(cond.th) /\ IsError(cond.tensor)
        THEN {cond.tensor} ELSE {})
  \cup (IF /\ cond.stage \in {"done", "crashed"}
           /\ ~IsError(cond.th) /\ ~IsError(cond.tensor) /\ IsError(cond.ht)
        THEN {cond.ht} ELSE {})

\* C7: when the condition handle, its tensor or its host-tensor conversion
\* is an error, every result is forwarded to that error, no function is
\* executed and nothing is read from the errored value.
C7_CondErrorForwardedNothingRead ==
  \A e \in CondHandledErrors :
    /\ \A i \in ResIdx : cond.resVal[i] = e /\ cond.fwd[i] = 1
    /\ cond.execTrue = 0 /\ cond.execFalse = 0
    /\ ~cond.readError

\* The condition resolved without error at every step.
CondClean ==
  /\ IsConcrete(cond.th) /\ IsConcrete(cond.tensor) /\ IsConcrete(cond.ht)
  /\ ~cond.garbage

\* C8: a function is executed only when the condition handle, its tensor
\* and the host conversion are all available; the three are waited for in
\* this order: the tensor is looked at after the handle, the conversion is
\* started after the tensor.
C8_CondWaitsInOrder ==
  /\ (cond.execTrue + cond.execFalse > 0) =>
        IsAvailable(cond.th) /\ IsAvailable(cond.tensor) /\ IsAvailable(cond.ht)
  /\ cond.stage = "waitTensor" => IsAvailable(cond.th)
  /\ cond.stage = "waitHT" => IsAvailable(cond.th) /\ IsAvailable(cond.tensor)
  /\ cond.ht # None => IsAvailable(cond.th) /\ IsAvailable(cond.tensor)

\* C8 witness: a function has run on a condition that resolved without error.
C8_Witness ==
  CondClean /\ cond.stage = "done" /\ cond.execTrue + cond.execFalse = 1

\* C9 (as amended): for a dense single-element condition of the boolean
\* kind or an integer kind, true_fn is selected iff the element is nonzero
\* and false_fn otherwise; every other kind, the float kinds included,
\* reaches the unsupported-dtype branch.
C9_DensePredicateIntKinds ==
  (CondClean /\ cond.content.format = "dense" /\ cond.stage \in {"done", "crashed"}) =>
    IF cond.content.kind \in BoolKinds \cup IntKinds
    THEN /\ cond.stage = "done"
         /\ ~cond.unsupported
         /\ cond.execTrue = (IF cond.content.value # 0 THEN 1 ELSE 0)
         /\ cond.execFalse = 1 - cond.execTrue
    ELSE cond.unsupported

\* C9 witness: an int32 condition holding 5 has selected true_fn.
C9_Witness ==
  /\ CondClean /\ cond.stage = "done"
  /\ cond.content.format = "dense" /\ cond.content.kind = "i32"
  /\ cond.content.value = 5
  /\ cond.execTrue = 1 /\ cond.execFalse = 0

\* C9 as stated: nonzero selects true_fn for the boolean kind and every
\* integer and float kind; any other kind fails an assertion and selects
\* no function.
C9_DensePredicateAllNumericKinds ==
  (CondClean /\ cond.content.format = "dense" /\ cond.stage \in {"done", "crashed"}) =>
    IF cond.content.kind \in BoolKinds \cup IntKinds \cup FloatKinds
    THEN /\ cond.stage = "done"
         /\ cond.execTrue = (IF cond.content.value # 0 THEN 1 ELSE 0)
         /\ cond.execFalse = 1 - cond.execTrue
    ELSE cond.stage = "crashed" /\ cond.execTrue = 0 /\ cond.execFalse = 0

CondPredicateDefined ==
  \/ cond.content.format = "dense" /\ cond.content.kind \in PredicateKinds
  \/ cond.content.format = "string"

\* The truth value of the condition, where it is defined.
CondPredicate ==
  IF cond.content.format = "dense"
  THEN cond.content.value # 0
  ELSE Len(cond.content.strings) > 0 /\ cond.content.strings[1] # ""

C12_CondNonStrictInArgs ==
  /\ cond.stage = "waitTH" => \A i \in ResIdx : cond.resVal[i] = Pending
  /\ (cond.stage = "waitTH" /\ IsAvailable(cond.th)) => ENABLED OnHandleReady
  /\ (cond.stage = "waitTensor" /\ IsAvailable(cond.tensor)) => ENABLED OnTensorReady
  /\ (cond.stage = "waitHT" /\ IsAvailable(cond.ht)) => ENABLED OnHostTensorReady

\* C12 witness: the selected function has been executed while a remaining
\* argument is still pending.
C12_Witness ==
  /\ CondClean /\ cond.stage = "done"
  /\ cond.execTrue + cond.execFalse = 1
  /\ \E i \in ArgIdx : cond.args[i] = Pending

\* C13: without a bound runtime every kernel that looks up the runtime ends
\* with the no-runtime error as its outcome and has made no runtime call
\* (no lookup, creation, registration or dispatch).
C13_NoRuntimeReported ==
  ~runtime =>
    /\ ek.kernel # "none" =>
         ek.outcome = "error" /\ ek.error = NoRuntimeError /\ ek.log = <<>>
    /\ k[1].pc # "idle" =>
         /\ \A r \in ResIdx : k[1].results[r] = NoRuntimeError
         /\ k[1].makeOps = 0 /\ k[1].dispatches = 0
    /\ registry = {}

\* C14 (as amended): with a bound runtime ExecuteOp allocates its results
\* only after the op lookup has succeeded, and before it dispatches; after a
\* failed lookup it has allocated nothing and every result carries the
\* reported lookup error.
C14_ExecuteOpAllocatesAfterLookup ==
  (runtime /\ ek.kernel = "ExecuteOp") =>
    \/ /\ ek.outcome = "ok"
       /\ ek.log = <<"MakeOp", "AllocateAt", "ExecuteOpImpl">>
       /\ \A r \in ResIdx : IsAvailable(ek.results[r])
    \/ /\ ek.outcome = "error" /\ ek.error = EntryMakeOpError
       /\ ek.log = <<"MakeOp">>
       /\ \A r \in ResIdx : ek.results[r] = EntryMakeOpError

\* C14 witness: ExecuteOp has returned after a failed op lookup.
C14_Witness ==
  /\ runtime /\ ek.kernel = "ExecuteOp"
  /\ ek.outcome = "error" /\ ek.error = EntryMakeOpError

\* C14 as stated: with a bound runtime ExecuteOp allocates its results
\* before anything else, on every return path.
C14_ExecuteOpAllocatesFirst ==
  (runtime /\ ek.kernel = "ExecuteOp") =>
    Len(ek.log) > 0 /\ ek.log[1] = "AllocateAt"

\* The outputs of call c are all resolved, each to a value or an error.
OutputsResolved(c) ==
  /\ IsAvailable(OutChain(c))
  /\ \A r \in ResIdx : IsAvailable(k[c].results[r])

\* C15: with a bound runtime, once ExecuteOpSeq has been called, out_op_chain
\* and every declared result eventually resolve, each to a value or an
\* error, provided the operands resolve and a dispatched op completes.
C15_OutputsEventuallyResolve ==
  (runtime /\ k[1].pc # "idle") ~> OutputsResolved(1)

\* C15 witness: a call that had to wait, dispatched the op, and whose
\* outputs have all resolved after the op's completion.
C15_Witness ==
  /\ runtime /\ k[1].path = "slow" /\ k[1].dispatches = 1
  /\ k[1].pc = "done" /\ OutputsResolved(1)

\* C16: on the slow path exactly one continuation is registered; it runs at
\* most once, it has run once the call is past waiting, and when it has run
\* op_handler and every argument are available. The fast path registers none.
C16_SingleContinuationAfterOperands ==
  /\ k[1].path = "slow" =>
       /\ k[1].registered = 1
       /\ k[1].asyncArgs # {}
       /\ k[1].contRuns = (IF k[1].pc = "waiting" THEN 0 ELSE 1)
       /\ k[1].contRuns = 1 =>
            /\ IsAvailable(opHandler[1])
            /\ \A i \in ArgIdx : IsAvailable(argv[1][i])
  /\ k[1].path # "slow" => k[1].registered = 0 /\ k[1].contRuns = 0

\* C16 witness: the continuation has run after waiting for op_handler and
\* for an argument, neither of which was available at call time.
C16_Witness ==
  /\ k[1].path = "slow" /\ k[1].contRuns = 1
  /\ 0 \in k[1].asyncArgs /\ 1 \in k[1].asyncArgs
  /\ k[1].errAtCall = {}

\* A TensorHandle was produced by the last construction.
Produced == th.outcome = "handle"

\* C17: a handle constructed with known metadata reports IsMetadataAvailable
\* at once; a handle constructed with a metadata future reports it exactly
\* when the future has resolved; and a handle that reports it keeps
\* reporting it.
C17_MetadataAvailability ==
  /\ [](Produced =>
          /\ th.how = "inline" => IsMetadataAvailable(th)
          /\ (th.how = "async" /\ th.asyncMeta # 0) =>
               (IsMetadataAvailable(th) <=> IsAvailable(CellState(th.asyncMeta))))
  /\ [][(Produced /\ th' = th /\ IsMetadataAvailable(th)) => IsMetadataAvailable(th)']_vars

\* C17 witness: a handle constructed on a pending metadata future reports
\* its metadata available after the future has resolved.
C17_Witness ==
  /\ Produced /\ th.how = "async" /\ th.atCtor = Pending
  /\ IsAvailable(CellState(th.asyncMeta)) /\ IsMetadataAvailable(th)

\* C18: in every handle produced exactly one of the inline and the deferred
\* metadata slot is constructed, and the tag is true exactly when it is the
\* inline one.
C18_TagSelectsConstructedSlot ==
  Produced =>
    /\ th.inlineInit # th.asyncInit
    /\ th.isInline <=> th.inlineInit

\* C18 witness: a handle constructed with known metadata, tagged inline.
C18_Witness ==
  Produced /\ th.how = "inline" /\ th.isInline /\ th.inlineInit /\ ~th.asyncInit

\* The last construction was given a null reference.
NullGiven ==
  \/ th.how = "async" /\ (th.argMd = 0 \/ th.argT = 0)
  \/ th.how = "inline" /\ th.argT = 0
  \/ th.how \in {"error", "CreateError"} /\ th.arg = 0

\* The handle holds a null payload reference, or a null reference in its
\* deferred metadata slot.
HoldsNull == th.tensor = 0 \/ (~th.isInline /\ th.asyncMeta = 0)

C20_CreateErrorAliasesError ==
  th.how = "CreateError" =>
    /\ (Produced /\ IsError(th.atCtor)) =>
         /\ th.device = "none"
         /\ ~th.isInline /\ th.asyncInit
         /\ th.asyncMeta = th.arg /\ th.tensor = th.arg
         /\ IsError(CellState(th.asyncMeta))
         /\ CellState(th.asyncMeta) = CellState(th.tensor)
    /\ th.outcome = "assert" => ~IsError(th.atCtor)
    /\ IsError(th.atCtor) => Produced

\* C20 witness: CreateError has returned a handle for an error reference.
C20_Witness ==
  th.how = "CreateError" /\ Produced /\ IsError(th.atCtor) /\ th.arg \in CellIdx

\* The five states of a handle the rendering has to tell apart.
FiveStates == {"null", "known", "errorMeta", "errored", "resolved"}

\* C21: of the renderings written, two of handles in the same one of the
\* five states have the same text and two of handles in different ones have
\* different texts.
C21_RenderingTellsStatesApart ==
  \A p \in seen, q \in seen :
    (p.state \in FiveStates /\ q.state \in FiveStates) =>
      (p.state = q.state <=> p.text = q.text)

\* C21 witness: a handle with an errored payload and a handle with a pending
\* payload and known metadata have both been rendered.
C21_Witness == {"errored", "known"} \subseteq {p.state : p \in seen}

\* C22: the accessors of a shape created from dims return dims, its length
\* as the rank, and dims[i] for every index below the rank.
C22_ShapeRoundTrip ==
  (last.op = "query" /\ shapes[last.s].how = "create") =>
    /\ last.dims = shapes[last.s].from
    /\ last.rank = Len(shapes[last.s].from)
    /\ \A i \in 1..Len(shapes[last.s].from) : last.sizes[i] = shapes[last.s].from[i]

\* C22 witness: the accessors were applied to a shape of rank 2 that is
\* stored out of line because of the size of a dimension.
C22_Witness ==
  /\ last.op = "query" /\ last.srcKind = kRepExternal
  /\ last.rank = 2 /\ last.dims = shapes[last.s].from

\* The shapes s and t were both created from dimension lists, and from
\* element-wise equal ones.
CreatedFromEqual(s, t) ==
  /\ shapes[s].live /\ shapes[t].live
  /\ shapes[s].how = "create" /\ shapes[t].how = "create"
  /\ shapes[s].from = shapes[t].from

Small(v) == v[1] + Byte * v[2] + Byte * Byte * v[3]

RECURSIVE SmallProduct(_, _)
SmallProduct(dims, j) ==
  IF j > Len(dims) THEN 1 ELSE Small(dims[j]) * SmallProduct(dims, j + 1)

\* Every dimension is at most 2^16 and at most one is above 3: the product
\* is below 2^31.
HasSmallProduct(dims) ==
  /\ \A j \in 1..Len(dims) : FitsIn(dims[j], 2) \/ dims[j] = LE(65536)
  /\ \A i \in 1..Len(dims), j \in 1..Len(dims) :
       (Small(dims[i]) > 3 /\ Small(dims[j]) > 3) => i = j

HasZero(dims) == \E j \in 1..Len(dims) : dims[j] = LE(0)

\* The accessors were applied to a shape created from dims.
Queried(dims) ==
  last.op = "query" /\ shapes[last.s].how = "create" /\ shapes[last.s].from = dims

\* C24 (as amended): NumElements is the product of the dimensions in 64-bit
\* arithmetic: 1 for the scalar, 24 for [2,3,4], 0 with a zero dimension, the
\* exact product while it is small, and for a FixedRankShape 0 for
\* [2^32, 2^32], whose product 2^64 wraps in size_t.
C24_NumElementsModulo ==
  \A dims \in DimLists :
    Queried(dims) =>
      /\ dims = <<>> => last.num = LE(1) /\ last.fixedNum = LE(1)
      /\ dims = <<LE(2), LE(3), LE(4)>> => last.num = LE(24) /\ last.fixedNum = LE(24)
      /\ HasZero(dims) => last.num = LE(0) /\ last.fixedNum = LE(0)
      /\ HasSmallProduct(dims) =>
           /\ last.num = LE(SmallProduct(dims, 1))
           /\ last.fixedNum = LE(SmallProduct(dims, 1))
      /\ dims = <<Pow32, Pow32>> => last.fixedNum = LE(0)

\* C24 witness: NumElements of [2,3,4] has been taken.
C24_Witness == Queried(<<LE(2), LE(3), LE(4)>>) /\ last.fixedNum = LE(24)

\* C24 as stated: NumElements is the product of the dimensions, so it is the
\* exact product while that is small, and it is 0 only with a zero dimension.
C24_NumElementsIsProduct ==
  \A dims \in DimLists :
    Queried(dims) =>
      /\ HasSmallProduct(dims) => last.fixedNum = LE(SmallProduct(dims, 1))
      /\ last.fixedNum = LE(0) => HasZero(dims)

\* The last operation was a move from the object s into another object t.
MovedInto(t, s) ==
  /\ last.op \in {"moveConstruct", "moveAssign"}
  /\ last.t = t /\ last.s = s /\ t # s

\* C25 (as amended): after a move from S into another object, the target
\* holds S's former dimensions; an S that was stored externally is left as
\* the Rep16 shape of rank 0, and an S that was stored inline is left as it was.
C25_MoveTakesExternalOnly ==
  \A t \in ShapeIdx, s \in ShapeIdx :
    MovedInto(t, s) =>
      /\ GetDimensions(shapes[t].rep, heap) = last.srcDims
      /\ last.srcKind = kRepExternal =>
           /\ GetRepresentationKind(shapes[s].rep) = kRep16
           /\ GetRank(shapes[s].rep) = 0
      /\ last.srcKind # kRepExternal =>
           /\ GetRepresentationKind(shapes[s].rep) = last.srcKind
           /\ GetDimensions(shapes[s].rep, heap) = last.srcDims

\* C25 witness: an externally stored shape of rank 2 was move-assigned to
\* another object and is now of rank 0.
C25_Witness ==
  /\ MovedInto(last.t, last.s) /\ last.op = "moveAssign"
  /\ last.srcKind = kRepExternal /\ Len(last.srcDims) = 2
  /\ GetRank(shapes[last.s].rep) = 0

\* C25 as stated: after a move from S, whatever its encoding, the target
\* holds S's former dimensions and S is an inline shape of rank 0.
C25_MoveEmptiesSource ==
  \A t \in ShapeIdx, s \in ShapeIdx :
    MovedInto(t, s) =>
      /\ GetDimensions(shapes[t].rep, heap) = last.srcDims
      /\ ~IsRepresentationExternal(shapes[s].rep)
      /\ GetRank(shapes[s].rep) = 0

\* The object t owns a live buffer of its own.
OwnsBuffer(t) ==
  /\ shapes[t].live /\ IsRepresentationExternal(shapes[t].rep)
  /\ heap[ExternalDims(shapes[t].rep)].state = "live"
  /\ \A u \in ShapeIdx \ {t} :
       (shapes[u].live /\ IsRepresentationExternal(shapes[u].rep)) =>
         ExternalDims(shapes[u].rep) # ExternalDims(shapes[t].rep)

\* C26: after a copy construction or copy assignment from an externally
\* stored shape, the target owns a buffer of its own that holds the source's
\* rank and dimensions.
C26_CopyIsDeep ==
  (last.op \in {"copyConstruct", "copyAssign"} /\ last.srcKind = kRepExternal) =>
    /\ OwnsBuffer(last.t)
    /\ GetRank(shapes[last.t].rep) = Len(last.srcDims)
    /\ GetDimensions(shapes[last.t].rep, heap) = last.srcDims

\* The live objects that point to buffer b.
Owners(b) ==
  {s \in ShapeIdx : /\ shapes[s].live
                    /\ IsRepresentationExternal(shapes[s].rep)
                    /\ ExternalDims(shapes[s].rep) = b}

\* C27: a buffer is released at most once and never used after its release;
\* a live buffer has exactly one live owner, a released one is no more than
\* released once and has no owner, and no buffer is live once no shape is.
C27_BuffersReleasedOnce ==
  \A b \in BufIdx :
    /\ heap[b].frees <= 1
    /\ ~heap[b].uaf
    /\ heap[b].state = "live" => Cardinality(Owners(b)) = 1
    /\ heap[b].state # "live" => Owners(b) = {}
    /\ (heap[b].state = "released") <=> (heap[b].frees = 1)
    /\ (\A s \in ShapeIdx : ~shapes[s].live) => heap[b].state # "live"

\* C27 witness: one buffer has been released and another is owned by a copy.
C27_Witness ==
  /\ \E b \in BufIdx : heap[b].frees = 1
  /\ \E b \in BufIdx : heap[b].state = "live"
  /\ last.op = "copyAssign"

\* C30: with a runtime, GetOpHandler returns the handler registered under
\* the requested name and otherwise the error "op_handler not found.", after
\* one lookup, and it leaves the registrations as they were.
C30_GetOpHandlerFoundOrNot ==
  /\ [](( ek.kernel = "GetOpHandler" /\ runtime ) =>
          /\ ek.name \in registry => ek.outcome = "ok" /\ ek.error = None
          /\ ek.name \notin registry =>
               ek.outcome = "error" /\ ek.error = HandlerNotFoundError
          /\ ek.log = <<"GetOpHandler">>)
  /\ [][ (ek'.kernel = "GetOpHandler" /\ ek' # ek) => registry' = registry ]_vars

\* C30 witness: a lookup of a name that is not registered, while another is.
C30_Witness ==
  /\ runtime /\ ek.kernel = "GetOpHandler" /\ ek.error = HandlerNotFoundError
  /\ registry # {} /\ ek.name \notin registry

\* The view class written for a sub-attribute of the given type.
ConcreteClass(type) ==
  CASE type = kI32 -> "I32Attr"
    [] type = kShape -> "ShapeAttr"
    [] type = kEmptyArray -> "ArrayAttr"

\* The last operation took sub-attribute tv.index of the aggregate, and that
\* index is inside, or outside, 0..N-1.
TookElement == tv.op \in {"GetAttribute", "GetAttributeOfType"}
InsideTable == 0 <= tv.index /\ tv.index < abuf.num_elements

\* C28: for 0 <= i < N GetAttribute(i) is the view at the i-th entry of the
\* offset table and GetAttributeOfType with the class of that element
\* succeeds with a view at the same place; for an index outside 0..N-1,
\* negative ones included, the bounds assertion fails (where assert() is
\* compiled in).
C28_ElementAtOffsetTableEntry ==
  TookElement =>
    /\ (InsideTable /\ tv.op = "GetAttribute") =>
         tv.outcome = "view" /\ tv.base = abuf.offsets[tv.index + 1]
    /\ ( /\ InsideTable /\ tv.op = "GetAttributeOfType"
         /\ tv.class = ConcreteClass(abuf.type[abuf.offsets[tv.index + 1]]) ) =>
         tv.outcome = "view" /\ tv.base = abuf.offsets[tv.index + 1]
    /\ (~InsideTable /\ tv.asserts) => tv.outcome = "assert"

\* C28 witness: the second of two sub-attributes, a shape, was taken as a
\* ShapeAttr.
C28_Witness ==
  /\ tv.op = "GetAttributeOfType" /\ tv.index = 1 /\ abuf.num_elements = 2
  /\ tv.class = "ShapeAttr" /\ tv.outcome = "view"
  /\ abuf.type[tv.base] = kShape

\* C29: cast<T>() and T(data) fail an assertion (where assert() is compiled
\* in) when the type in the header does not satisfy T's classof, and give a
\* view of class T over the same header when it does.
C29_MismatchedDowncastAsserts ==
  tv.op \in {"cast", "construct"} =>
    /\ (~classof(tv.class, abuf.type[tv.from]) /\ tv.asserts) => tv.outcome = "assert"
    /\ classof(tv.class, abuf.type[tv.from]) =>
         tv.outcome = "view" /\ tv.base = tv.from

\* C29 witness: an I32Attr was constructed over the header of a shape
\* attribute and the assertion failed.
C29_Witness ==
  /\ tv.op = "construct" /\ tv.class = "I32Attr" /\ tv.asserts
  /\ abuf.type[tv.from] = kShape /\ tv.outcome = "assert"

\* C38: after a copy assignment or a move assignment, also of an object to
\* itself, the target has the dimensions the source had before it.
C38_AssignmentKeepsSourceDimensions ==
  last.op \in {"copyAssign", "moveAssign"} =>
    GetDimensions(shapes[last.t].rep, heap) = last.srcDims

\* The object s is what a move out of an externally stored shape left.
LeftByMoveOfExternal(s) ==
  shapes[s].live /\ shapes[s].how = "movedFrom" /\ GetRank(shapes[s].rep) = 0

\* C39: two shapes are equal exactly when their dimension lists are, and
\* what a move out of an external shape leaves has the 16 bytes of, and is
\* equal to, a freshly created shape of rank 0.
C39_EqualityIsElementWise ==
  /\ \A s \in ShapeIdx, t \in ShapeIdx :
       (shapes[s].live /\ shapes[t].live) =>
         ( ShapesEqual(shapes[s].rep, shapes[t].rep, heap)
             <=> GetDimensions(shapes[s].rep, heap) = GetDimensions(shapes[t].rep, heap) )
  /\ \A s \in ShapeIdx, old \in Storage :
       LeftByMoveOfExternal(s) =>
         /\ \A p \in 1..RepBytes : shapes[s].rep[p] = TensorShapeRep(old, <<>>, 0)[p]
         /\ ShapesEqual(shapes[s].rep, TensorShapeRep(old, <<>>, 0), heap)

\* C40: dyn_cast<T>() on a header whose type does not satisfy T's classof
\* returns the empty view of class T, with no assertion failed and no type
\* read through the null pointer; on one that does, a view over the same
\* header.
C40_DynCastMismatchIsEmpty ==
  tv.op = "dyn_cast" =>
    /\ ~classof(tv.class, abuf.type[tv.from]) =>
         tv.outcome = "view" /\ tv.base = NullBase
    /\ classof(tv.class, abuf.type[tv.from]) =>
         tv.outcome = "view" /\ tv.base = tv.from

\* The error the continuation of call 1 propagates when it does not
\* dispatch: op_handler's, else in_op_chain's, else the failed lookup, else
\* that of the first argument in argument order that is an error.
ShortCircuitError ==
  IF IsError(opHandler[1]) THEN opHandler[1]
  ELSE IF IsError(k[1].chainAtStart) THEN k[1].chainAtStart
  ELSE IF ~makeOpOk[1] THEN MakeOpError(1)
  ELSE argv[1][CHOOSE i \in ArgIdx :
                 IsError(argv[1][i]) /\ \A j \in 1..(i - 1) : ~IsError(argv[1][j])]

\* The continuation of call 1 ran and returned without dispatching the op.
ShortCircuited ==
  k[1].path = "slow" /\ k[1].contRuns > 0 /\ k[1].dispatches = 0

\* C32: when the continuation short-circuits, out_op_chain and every result
\* carry the one error chosen by the priority handler, in_op_chain, op
\* lookup, first erroring argument.
C32_OneErrorByPriority ==
  ShortCircuited =>
    /\ IsError(ShortCircuitError)
    /\ OutChain(1) = ShortCircuitError
    /\ \A i \in ResIdx : k[1].results[i] = ShortCircuitError

\* C32 witness: two arguments are errors, nothing else fails, and the
\* outputs carry the error of the first.
C32_Witness ==
  /\ ShortCircuited /\ makeOpOk[1] /\ IsConcrete(opHandler[1])
  /\ ~IsError(k[1].chainAtStart)
  /\ \A i \in ArgIdx : IsError(argv[1][i])
  /\ OutChain(1) = ArgError(1, 1)

\* C33: out_op_chain and each result of call 1 are assigned at most once.
C33_OutputsAssignedOnce ==
  /\ k[1].chainWrites <= 1
  /\ \A i \in ResIdx : k[1].writes[i] <= 1

\* C33 witness: the continuation dispatched the op, the op's chain resolved
\* to an error, and every output has been assigned once.
C33_Witness ==
  /\ k[1].path = "slow" /\ k[1].dispatches = 1 /\ k[1].pc = "done"
  /\ IsError(k[1].opChain)
  /\ k[1].chainWrites = 1 /\ \A i \in ResIdx : k[1].writes[i] = 1

\* C35: once the op lookup of call 1 has failed, the op is not dispatched
\* and out_op_chain and every result are the lookup's error.
C35_LookupFailureReachesOutputs ==
  (k[1].makeOps > 0 /\ ~makeOpOk[1]) =>
    /\ k[1].dispatches = 0
    /\ k[1].pc = "done"
    /\ OutChain(1) = MakeOpError(1)
    /\ \A i \in ResIdx : k[1].results[i] = MakeOpError(1)

\* C35 witness: the lookup failed in the continuation while an argument was
\* an error.
C35_Witness ==
  /\ k[1].path = "slow" /\ k[1].makeOps = 1 /\ ~makeOpOk[1]
  /\ \E i \in ArgIdx : IsError(argv[1][i])
  /\ OutChain(1) = MakeOpError(1)

\* C34: every result placeholder of corert.cond is forwarded at most once,
\* and exactly once when the kernel has finished, whether or not the
\* condition resolved to an error.
C34_CondPlaceholdersForwardedOnce ==
  /\ \A i \in ResIdx : cond.fwd[i] <= 1
  /\ cond.stage = "done" => \A i \in ResIdx : cond.fwd[i] = 1


\* C31: when the allocation fails in ConstStringTensor, ConstDenseTensor,
\* CreateDenseTensor or TfUnaryOp, the kernel returns an error whose message
\* names the allocation failure, returns no handle and no tensor, and writes
\* nothing into the payload.
AllocatingKernels == {"ConstStringTensor", "ConstDenseTensor", "CreateDenseTensor", "TfUnaryOp"}

AllocationMessages ==
  {"failed to allocate string host tensor", "failed to allocate dense host tensor",
   "out of memory allocating result"}

C31_AllocationFailureIsAnError ==
  (kr.op \in AllocatingKernels /\ kr.null) =>
    /\ kr.result = "error" /\ kr.failed = "allocation"
    /\ kr.message \in AllocationMessages
    /\ kr.h = NoHandle
    /\ kr.concrete = 0
    /\ kr.writes = 0

\* C31 witness: CreateDenseTensor has returned the error of a failed
\* allocation after another kernel had returned a handle.
C31_Witness ==
  /\ kr.op = "CreateDenseTensor" /\ kr.null /\ kr.result = "error"
  /\ th.outcome = "handle"

\* C36: TensorHandleToShape returns the shape of the handle's metadata at
\* once when the metadata is available at the call; otherwise it returns an
\* indirect result that is forwarded once, when the metadata has resolved, to
\* the shape of the metadata or to the error the metadata resolved to; and it
\* never reads the metadata of an AsyncValue in the error state.
MetadataName(h) == IF IsMetadataInline(h) THEN h.metadata ELSE h.asyncMeta

C36_ShapeUnlessErrorAtCall ==
  (kr.op = "TensorHandleToShape" /\ ~kr.readError) =>
    /\ kr.result \in {"shape", "indirect"}
    /\ kr.result = "shape" => kr.shape = MetadataName(kr.h) /\ kr.fwd = 0
    /\ kr.result = "indirect" =>
          /\ kr.fwd <= 1
          /\ kr.fwd = 1 =>
                kr.to = IF IsError(CellState(kr.h.asyncMeta))
                        THEN <<"cell", kr.h.asyncMeta>>
                        ELSE <<"shape", kr.h.asyncMeta>>

\* C37: HTToTensorHandle returns a handle with no device and with the
\* metadata of the host tensor in place, and TensorHandleToHT applied to that
\* handle returns the AsyncValue HTToTensorHandle was given.
C37_HostTensorRoundTrip ==
  /\ kr.op = "HTToTensorHandle" =>
        /\ kr.h.outcome = "handle" /\ IsMetadataInline(kr.h)
        /\ kr.h.metadata = kr.arg /\ kr.h.device = "none" /\ kr.h.tensor = kr.arg
  /\ (kr.op = "TensorHandleToHT" /\ kr.h.how = "HTToTensorHandle") =>
        /\ kr.out = kr.h.argT
        /\ IsMetadataInline(kr.h) /\ kr.h.metadata = kr.h.argT /\ kr.h.device = "none"

\* C37 witness: TensorHandleToHT has returned the tensor of a handle made by
\* HTToTensorHandle.
C37_Witness ==
  kr.op = "TensorHandleToHT" /\ kr.h.how = "HTToTensorHandle" /\ kr.out \in CellIdx

=============================================================================
